---- MODULE Spec2Model ----
(***************************************************************************)
(* SmartMed frontend.  The MetricsChart component                          *)
(* (frontend/src/components/MetricsChart.jsx): the scale normalizer, the   *)
(* series and overlay loaders with their asynchronous responses, the       *)
(* active time window, the reconciliation of the real series with the      *)
(* forecast overlay (filteredOverlay / merged), the polling timer, the     *)
(* point detail, the day lookup (fetchAdviceByDate) and the formatting of  *)
(* feature values (formatFeatureValue).  Around it: usePermissions,        *)
(* apiFetch, FirstVisitGate, and the Simulacion page with SimulationRadar  *)
(* and SimulateInterventions.  Each part has a specification of its own;   *)
(* the variables of the other parts rest at their initial values.          *)
(***************************************************************************)
EXTENDS Integers, Sequences, FiniteSets, TLC

VARIABLES
    metric,       \* prop `metric` (each mounted chart is given one metric for good)
    pollMs,       \* prop `pollMs`
    mode,         \* useState(defaultMode): "relative" | "absolute"
    relMinutes,   \* useState(defaultMinutes)
    absFrom,      \* useState(thirtyDaysAgo), epoch minutes
    absTo,        \* useState(now), epoch minutes
    currentRange, \* useMemo value [from, to], epoch minutes
    data,         \* useState([]): sequence of [tISO, value]
    overlay,      \* useState([]): sequence of [time, value]
    err,          \* useState("")
    loading,      \* useState(true)
    clock,        \* wall clock (Date.now()), epoch minutes
    seriesReqs,   \* series requests awaiting their response, in issue order
    overlayReqs,  \* forecast requests awaiting their response, in issue order
    dataStale,    \* history: `data` was set by a request that had been superseded
    dataJson,     \* history: json.points of the response that produced `data`
    timers,       \* number of setInterval timers of this chart that are running
    pollRef,      \* pollRef.current: "null", or a timer id that is "live" or "cleared"
    mounted,      \* the chart is mounted
    seriesResult, \* history: how the last handled series response ended
    overlayResult, \* history: how the forecast request ended
    overlayNow,   \* history: Date.now() read while committing the forecast
    overlayJson,  \* history: json of the forecast response that produced `overlay`
    nIn,          \* normalizer harness: the argument v
    nOut,         \* normalizer harness: normalizeDiscrete(v)
    nOut2,        \* normalizer harness: normalizeDiscrete(normalizeDiscrete(v))
    mReal,        \* reconciler harness: json.points of a series response
    mFc,          \* reconciler harness: json of a latest-forecast response
    mDone,        \* reconciler harness: the two responses have been committed
    adviceDate,   \* useState(""): the date of the day lookup, "" or YYYY-MM-DD
    adviceMsg,    \* useState(null): [type, text] or Null
    adviceLoading, \* useState(false)
    selectedTs,   \* useState(null)
    detail,       \* useState(null)
    detailErr,    \* useState("")
    detailOpen,   \* useState(false)
    detailLoading, \* useState(false)
    advPc,        \* fetchAdviceByDate: the await it is suspended at
    advReqs,      \* fetchAdviceByDate: the requests it has issued, in order
    advTrace,     \* history: the answers fetchAdviceByDate has handled, in order
    advPoints,    \* history: j2.points of the day's series response
    fKey,         \* formatter harness: the feature key, split at its underscores
    fValue,       \* formatter harness: the feature value
    fOut,         \* formatter harness: formatFeatureValue(key, value)
    isAuthenticated, \* usePermissions: useAuth0().isAuthenticated
    perms,        \* usePermissions: useState([])
    permLoading,  \* usePermissions: useState(true)
    permRuns,     \* usePermissions: effect runs awaiting apiFetch, each with its `ignore`
    permMounted,  \* usePermissions: the component using the hook is mounted
    permDropped,  \* history: the answer of a cleaned-up run has arrived
    afPc,         \* apiFetch: the await it is suspended at, or how it ended
    afCall,       \* apiFetch: its arguments [path, isForm, retry]
    afCache,      \* Auth0 token cache: the cached token, 0 for none
    afMinted,     \* number of tokens the authorization server has issued
    afToken,      \* apiFetch: the token the pending request was built with
    afSent,       \* apiFetch: the HTTP requests it has issued, in order
    afRes,        \* apiFetch: the response it returned, Null before that
    gateLoading,  \* FirstVisitGate: useAuth0().isLoading
    gateAuth,     \* FirstVisitGate: useAuth0().isAuthenticated
    smHasVisited, \* localStorage.getItem("sm_has_visited"): Null or "1"
    gateOps,      \* history: the effects of FirstVisitGate's effect runs, in order
    gateRemoved,  \* history: number of times the key has been removed
    gateVisits,   \* number of page visits so far
    detReqs,      \* fetchDetail: the requests awaiting their response, in click order
    detShown,     \* history: the timestamp whose request produced detail / detailErr
    activeMetric, \* Simulacion: useState("sleep")
    reload,       \* Simulacion: useState(0), the reloadToken of SimulationRadar
    rows,         \* SimulationRadar: useState([])
    radLoading,   \* SimulationRadar: useState(false) `loading`
    resetting,    \* SimulationRadar: useState(false)
    radErr,       \* SimulationRadar: useState("") `err`
    radLoads,     \* SimulationRadar: loadAll calls that have not resolved yet
    resetReq,     \* SimulationRadar: the DELETE request of handleReset, or Null
    srvForecast,  \* server: the latest forecast of each metric, Null for none
    resetAcked,   \* history: metrics reset and acknowledged, no forecast generated since
    simLoading,   \* SimulateInterventions: useState(false) `loading`
    simMsg,       \* SimulateInterventions: useState(null) `msg`
    simReq,       \* SimulateInterventions: the POST request of run, or Null
    simRuns,      \* number of generation requests issued so far
    cIn,          \* clamp harness: the argument v
    cOut,         \* clamp harness: clamp15(v)
    cNorm,        \* clamp harness: normalizeDiscrete(v)
    cSim          \* clamp harness: loadMetric's sim for a forecast whose last value is v

vars == <<metric, pollMs, mode, relMinutes, absFrom, absTo, currentRange, data, overlay,
          err, loading, clock, seriesReqs, overlayReqs, dataStale,
          dataJson, timers, pollRef, mounted, seriesResult, overlayResult,
          overlayNow, overlayJson, nIn, nOut, nOut2, mReal, mFc, mDone,
          adviceDate, adviceMsg, adviceLoading, selectedTs, detail, detailErr,
          detailOpen, detailLoading, advPc, advReqs, advTrace, advPoints,
          fKey, fValue, fOut,
          isAuthenticated, perms, permLoading, permRuns, permMounted, permDropped,
          afPc, afCall, afCache, afMinted, afToken, afSent, afRes,
          gateLoading, gateAuth, smHasVisited, gateOps, gateRemoved, gateVisits,
          detReqs, detShown,
          activeMetric, reload, rows, radLoading, resetting, radErr, radLoads,
          resetReq, srvForecast, resetAcked, simLoading, simMsg, simReq, simRuns,
          cIn, cOut, cNorm, cSim>>

pollVars == <<timers, pollRef, mounted>>

histVars == <<seriesResult, overlayResult, overlayNow, overlayJson>>

chartVars == <<metric, pollMs, mode, relMinutes, absFrom, absTo, currentRange, data,
               overlay, err, loading, clock, seriesReqs, overlayReqs, dataStale, dataJson,
               pollVars, histVars>>

normVars == <<nIn, nOut, nOut2>>

mergeVars == <<mReal, mFc, mDone>>

dayVars == <<adviceDate, adviceMsg, adviceLoading, selectedTs, detail, detailErr,
             detailOpen, detailLoading, advPc, advReqs, advTrace, advPoints>>

fmtVars == <<fKey, fValue, fOut>>

permVars == <<isAuthenticated, perms, permLoading, permRuns, permMounted, permDropped>>

fetchVars == <<afPc, afCall, afCache, afMinted, afToken, afSent, afRes>>

gateVars == <<gateLoading, gateAuth, smHasVisited, gateOps, gateRemoved, gateVisits>>

detVars == <<detReqs, detShown>>

radarVars == <<rows, radLoading, resetting, radErr, radLoads, resetReq, resetAcked>>

genVars == <<simLoading, simMsg, simReq, simRuns>>

simVars == <<activeMetric, reload, srvForecast, radarVars, genVars>>

clampVars == <<cIn, cOut, cNorm, cSim>>

appVars == <<permVars, fetchVars, gateVars, detVars, simVars, clampVars>>

\* Everything outside the page or hook an action belongs to.
chartSide == <<chartVars, normVars, mergeVars, dayVars, fmtVars>>

(***************************************************************************)
(* JavaScript values.  A number is kept as an integer count of 1/Den, so   *)
(* that fractional scores (3.4, 2.5) are representable.                    *)
(***************************************************************************)
Den == 10
MaxAbs == 100

Null == [t |-> "null", n |-> 0]
Undefined == [t |-> "undefined", n |-> 0]
EmptyStr == [t |-> "empty", n |-> 0]
NaN == [t |-> "nan", n |-> 0]
PosInf == [t |-> "inf", n |-> 1]
NegInf == [t |-> "inf", n |-> -1]
TextStr == [t |-> "str", n |-> 0]
Num(n) == [t |-> "num", n |-> n]
NumStr(n) == [t |-> "numstr", n |-> n]
Int2Num(k) == Num(k * Den)

Min(a, b) == IF a <= b THEN a ELSE b
Max(a, b) == IF a >= b THEN a ELSE b

\* Number(v) for a non-null v: a numeric string parses to its number, any
\* other text to NaN.
Number(v) ==
    CASE v.t = "num" -> v
      [] v.t = "numstr" -> Num(v.n)
      [] v.t = "inf" -> v
      [] OTHER -> NaN

IsFinite(x) == x.t = "num"

\* Math.round: the nearest integer, a tie going towards +Infinity.
MathRound(x) == Num(((2 * x.n + Den) \div (2 * Den)) * Den)

\* Math.round replaced by truncation (Math.trunc / parseInt).
normalizeTrunc(v) ==
    IF v.t \in {"null", "undefined"} \/ v.t = "empty" THEN Null
    ELSE LET n == Number(v) IN
         IF ~IsFinite(n) THEN Null
         ELSE LET k == IF n.n >= 0 THEN n.n \div Den ELSE -((-n.n) \div Den) IN
              Num(Min(5 * Den, Max(1 * Den, k * Den)))

\* "no data" reported as 0 instead of null.
normalizeZero(v) ==
    IF v.t \in {"null", "undefined"} \/ v.t = "empty" THEN Int2Num(0)
    ELSE LET n == Number(v) IN
         IF ~IsFinite(n) THEN Int2Num(0)
         ELSE Num(Min(5 * Den, Max(1 * Den, MathRound(n).n)))

normalizeDiscrete(v) ==
    IF v.t \in {"null", "undefined"} \/ v.t = "empty" THEN Null
    ELSE LET n == Number(v) IN
         IF ~IsFinite(n) THEN Null
         ELSE Num(Min(5 * Den, Max(1 * Den, MathRound(n).n)))

\* The arguments the normalizer harness draws from.
NormInputs ==
    {Null, Undefined, EmptyStr, NaN, PosInf, NegInf, TextStr}
        \cup {Num(n) : n \in (-MaxAbs * Den)..(MaxAbs * Den)}
        \cup {NumStr(n) : n \in (-MaxAbs * Den)..(MaxAbs * Den)}

Unset == [t |-> "unset", n |-> 0]

(***************************************************************************)
(* Timestamps.  An instant is a count of minutes since 2024-01-01T00:00Z.  *)
(* A timestamp string is kept as its encoding plus the minute of the day   *)
(* it spells out:                                                          *)
(*   "ms"  2024-01-01THH:MM:00.000Z    (what Date.prototype.toISOString    *)
(*                                      produces)                          *)
(*   "min" 2024-01-01THH:MMZ                                               *)
(*   "off" 2024-01-01THH:MM:00+01:00   (local time, one hour ahead of UTC) *)
(* Two strings are equal exactly when encoding and spelled minute agree.   *)
(***************************************************************************)
OffsetMinutes == 1 * 60

Ts(enc, loc) == [enc |-> enc, loc |-> loc]

\* Date.parse(ts), in minutes: NaN for text that is no date.
DateParse(ts) ==
    CASE ts.enc \in {"ms", "min"} -> [finite |-> TRUE, ms |-> ts.loc]
      [] ts.enc = "off" -> [finite |-> TRUE, ms |-> ts.loc - OffsetMinutes]
      [] OTHER -> [finite |-> FALSE, ms |-> 0]

\* new Date(ms).toISOString()
toISO(ms) == Ts("ms", ms)

\* Collation rank of the characters a timestamp is made of, in the order
\* String.prototype.localeCompare gives them: punctuation, symbols, digits,
\* letters.
Rank == [colon |-> 2, dot |-> 3, plus |-> 4, digit |-> 10, Z |-> 30]
ChColon == Rank.colon
ChDot == Rank.dot
ChPlus == Rank.plus
ChDigit(k) == Rank.digit + k
ChZ == Rank.Z

\* The characters after the common prefix "2024-01-01T".
Chars(ts) ==
    LET h == ts.loc \div 60
        m == ts.loc % 60
        hhmm == <<ChDigit(h \div 10), ChDigit(h % 10), ChColon,
                  ChDigit(m \div 10), ChDigit(m % 10)>>
    IN  CASE ts.enc = "ms" ->
               hhmm \o <<ChColon, ChDigit(0), ChDigit(0), ChDot,
                         ChDigit(0), ChDigit(0), ChDigit(0), ChZ>>
          [] ts.enc = "min" -> hhmm \o <<ChZ>>
          [] OTHER ->
               hhmm \o <<ChColon, ChDigit(0), ChDigit(0), ChPlus,
                         ChDigit(0), ChDigit(1), ChColon, ChDigit(0), ChDigit(0)>>

\* a.localeCompare(b): negative, zero or positive.
localeCompare(a, b) ==
    LET x == Chars(a)
        y == Chars(b)
        n == Min(Len(x), Len(y))
        diff == {i \in 1..n : x[i] # y[i]}
    IN  IF diff = {}
        THEN (IF Len(x) < Len(y) THEN -1 ELSE IF Len(x) > Len(y) THEN 1 ELSE 0)
        ELSE LET i == CHOOSE j \in diff : \A k \in diff : j <= k
             IN  IF x[i] < y[i] THEN -1 ELSE 1

(***************************************************************************)
(* The reconciler: filteredOverlay, merged, hasOverlay.                    *)
(***************************************************************************)
\* v ?? null
Coalesce(v) == IF v.t \in {"null", "undefined"} THEN Null ELSE v

InRange(ts, range) ==
    LET t == DateParse(ts) IN
    t.finite /\ t.ms >= range.from /\ t.ms <= range.to

\* The overlay kept whatever the window is.
FilteredAnyWindow(ov, d, range) ==
    IF Len(ov) = 0 \/ Len(d) = 0 THEN <<>>
    ELSE LET realTimes == {d[i].tISO : i \in 1..Len(d)}
             Keep(p) == p.time \in realTimes
         IN  SelectSeq(ov, Keep)

\* Every overlay point kept and moved onto the nearest in-window real sample.
FilteredSnap(ov, d, range) ==
    IF Len(ov) = 0 \/ Len(d) = 0 THEN <<>>
    ELSE LET inWin == {i \in 1..Len(d) : InRange(d[i].tISO, range)}
             Dist(i, p) == LET a == DateParse(d[i].tISO).ms
                               b == DateParse(p.time).ms
                           IN  IF a >= b THEN a - b ELSE b - a
             Near(p) == CHOOSE i \in inWin :
                            \A j \in inWin : Dist(i, p) < Dist(j, p)
                                              \/ (Dist(i, p) = Dist(j, p) /\ i <= j)
         IN  IF inWin = {} THEN <<>>
             ELSE [k \in 1..Len(ov) |->
                      [time |-> d[Near(ov[k])].tISO, value |-> ov[k].value]]

FilteredOverlayOf(ov, d, range) ==
    IF Len(ov) = 0 \/ Len(d) = 0 THEN <<>>
    ELSE LET realTimes == {d[i].tISO : i \in {j \in 1..Len(d) : InRange(d[j].tISO, range)}}
             Keep(p) == p.time \in realTimes
         IN  SelectSeq(ov, Keep)

\* Map.prototype.set on a Map kept as the sequence of its rows in insertion
\* order: an existing key keeps its place and takes the new row.
MapHas(map, t) == \E i \in 1..Len(map) : map[i].time = t

\* A first-write-wins Map: a later row for a known key is dropped.
MapSetFirst(map, row) ==
    IF MapHas(map, row.time) THEN map ELSE Append(map, row)

MapSet(map, row) ==
    IF MapHas(map, row.time)
    THEN [i \in 1..Len(map) |-> IF map[i].time = row.time THEN row ELSE map[i]]
    ELSE Append(map, row)

RECURSIVE SeedRows(_, _)
SeedRows(d, map) ==
    IF d = <<>> THEN map
    ELSE SeedRows(Tail(d),
                  MapSet(map, [time |-> Head(d).tISO,
                               real |-> Coalesce(Head(d).value),
                               sim |-> Null]))

RECURSIVE ApplyOverlay(_, _)
ApplyOverlay(fo, map) ==
    IF fo = <<>> THEN map
    ELSE LET p == Head(fo) IN
         ApplyOverlay(Tail(fo),
                      [i \in 1..Len(map) |->
                          IF map[i].time = p.time
                          THEN [map[i] EXCEPT !.sim = Coalesce(p.value)]
                          ELSE map[i]])

\* Array.prototype.sort((a, b) => a.time.localeCompare(b.time)): a stable
\* insertion of each row after the rows that do not compare greater.
RECURSIVE InsertRow(_, _)
InsertRow(sorted, row) ==
    IF sorted = <<>> THEN <<row>>
    ELSE IF localeCompare(row.time, Head(sorted).time) < 0
         THEN <<row>> \o sorted
         ELSE <<Head(sorted)>> \o InsertRow(Tail(sorted), row)

RECURSIVE SortRows(_, _)
SortRows(rs, acc) ==
    IF rs = <<>> THEN acc
    ELSE SortRows(Tail(rs), InsertRow(acc, Head(rs)))

MergedOf(d, fo) == SortRows(ApplyOverlay(fo, SeedRows(d, <<>>)), <<>>)

filteredOverlay == FilteredOverlayOf(overlay, data, currentRange)

merged == MergedOf(data, filteredOverlay)

hasOverlay == Len(filteredOverlay) > 0

\* <Line name="Simulacion" .../> is part of the chart.
simLineRendered == hasOverlay

(***************************************************************************)
(* What load and loadOverlay make of a successful response.                *)
(***************************************************************************)
NoTs == Ts("none", 0)

\* The points stored as received, their values not normalized.
SeriesPointsRaw(points) ==
    [i \in 1..Len(points) |-> [tISO |-> points[i].t, value |-> points[i].v]]

\* (json.points || []).map(p => ({ tISO: p.t, value: normalizeDiscrete(p.v) }))
SeriesPoints(points) ==
    [i \in 1..Len(points) |->
        [tISO |-> points[i].t, value |-> normalizeDiscrete(points[i].v)]]

\* A conversion that reads the clock anew for every point, the clock having
\* advanced by then.
OverlayPointsOwnClock(json, nowMs) ==
    IF json.forecast_mode = "absolute_ts"
    THEN [i \in 1..Len(json.forecast) |->
             [time |-> json.forecast[i].ts,
              value |-> normalizeDiscrete(json.forecast[i].value)]]
    ELSE [i \in 1..Len(json.forecast) |->
             [time |-> toISO(nowMs + (i - 1) + json.forecast[i].minute),
              value |-> normalizeDiscrete(json.forecast[i].value)]]

\* The forecast converted to absolute timestamps; nowMs is Date.now() at the
\* moment the response is handled.  A missing forecast_mode means
\* "minutes_ahead".
OverlayPoints(json, nowMs) ==
    IF json.forecast_mode = "absolute_ts"
    THEN [i \in 1..Len(json.forecast) |->
             [time |-> json.forecast[i].ts,
              value |-> normalizeDiscrete(json.forecast[i].value)]]
    ELSE [i \in 1..Len(json.forecast) |->
             [time |-> toISO(nowMs + json.forecast[i].minute),
              value |-> normalizeDiscrete(json.forecast[i].value)]]

\* overlayJson before any forecast has been committed.
NoForecast == [forecast_mode |-> "none", forecast |-> <<>>]

\* Sequences over S of length at most n.
SeqUpTo(S, n) == UNION {[1..k -> S] : k \in 0..n}

(***************************************************************************)
(* Values the variables of a harness that is not running are parked at.    *)
(***************************************************************************)
PollIdle == timers = 0 /\ pollRef = "null" /\ mounted = FALSE

HistIdle ==
    /\ seriesResult = "none"
    /\ overlayResult = "pending"
    /\ overlayNow = 0
    /\ overlayJson = NoForecast

ChartStateIdle ==
    /\ pollMs = 0
    /\ mode = "relative"
    /\ relMinutes = 60
    /\ absFrom = 0
    /\ absTo = 0
    /\ currentRange = [from |-> 0, to |-> 0]
    /\ data = <<>>
    /\ overlay = <<>>
    /\ err = ""
    /\ loading = TRUE
    /\ clock = 0
    /\ seriesReqs = <<>>
    /\ overlayReqs = <<>>
    /\ dataStale = FALSE
    /\ dataJson = <<>>
    /\ PollIdle
    /\ HistIdle

ChartIdle == metric = "sleep" /\ ChartStateIdle

NormIdle == nIn = Unset /\ nOut = Unset /\ nOut2 = Unset

MergeIdle == mReal = <<>> /\ mFc = <<>> /\ mDone = FALSE

\* The day lookup before fetchAdviceByDate is called: the useState initial
\* values.
DayIdle ==
    /\ adviceDate = ""
    /\ adviceMsg = Null
    /\ adviceLoading = FALSE
    /\ selectedTs = Null
    /\ detail = Null
    /\ detailErr = ""
    /\ detailOpen = FALSE
    /\ detailLoading = FALSE
    /\ advPc = "idle"
    /\ advReqs = <<>>
    /\ advTrace = <<>>
    /\ advPoints = <<>>

FmtIdle == fKey = <<>> /\ fValue = Unset /\ fOut = Unset

PermIdle ==
    /\ isAuthenticated = FALSE
    /\ perms = <<>>
    /\ permLoading = TRUE
    /\ permRuns = <<>>
    /\ permMounted = FALSE
    /\ permDropped = FALSE

FetchIdle ==
    /\ afPc = "idle"
    /\ afCall = Null
    /\ afCache = 0
    /\ afMinted = 0
    /\ afToken = 0
    /\ afSent = <<>>
    /\ afRes = Null

GateIdle ==
    /\ gateLoading = TRUE
    /\ gateAuth = FALSE
    /\ smHasVisited = Null
    /\ gateOps = <<>>
    /\ gateRemoved = 0
    /\ gateVisits = 0

DetIdle == detReqs = <<>> /\ detShown = Null

RadarIdle ==
    /\ rows = <<>>
    /\ radLoading = FALSE
    /\ resetting = FALSE
    /\ radErr = ""
    /\ radLoads = <<>>
    /\ resetReq = Null
    /\ resetAcked = {}

GenIdle == simLoading = FALSE /\ simMsg = Null /\ simReq = Null /\ simRuns = 0

SimIdle ==
    /\ activeMetric = "sleep"
    /\ reload = 0
    /\ srvForecast = <<>>
    /\ RadarIdle
    /\ GenIdle

ClampIdle == cIn = Unset /\ cOut = Unset /\ cNorm = Unset /\ cSim = Unset

AppIdle == PermIdle /\ FetchIdle /\ GateIdle /\ DetIdle /\ SimIdle /\ ClampIdle

(***************************************************************************)
(* The normalizer on its own: an argument is drawn, normalizeDiscrete is   *)
(* applied to it and then to its own result.                               *)
(***************************************************************************)
NormInit ==
    /\ nIn \in NormInputs
    /\ nOut = Unset
    /\ nOut2 = Unset
    /\ ChartIdle
    /\ MergeIdle
    /\ DayIdle
    /\ FmtIdle
    /\ AppIdle

NormApply ==
    /\ nOut = Unset
    /\ nOut' = normalizeDiscrete(nIn)
    /\ UNCHANGED <<nIn, nOut2, chartVars, mergeVars, dayVars, fmtVars, appVars>>

NormAgain ==
    /\ nOut # Unset
    /\ nOut2 = Unset
    /\ nOut2' = normalizeDiscrete(nOut)
    /\ UNCHANGED <<nIn, nOut, chartVars, mergeVars, dayVars, fmtVars, appVars>>

NormNext == NormApply \/ NormAgain

SpecNorm == NormInit /\ [][NormNext]_vars

(***************************************************************************)
(* The reconciler on its own: a series response, a forecast response and   *)
(* a window are drawn; both responses are committed as load and            *)
(* loadOverlay commit them, and the window is changed.                     *)
(***************************************************************************)
MaxReal == 2
MaxOver == 1
MergeTs == {Ts("ms", 60), Ts("ms", 65), Ts("min", 60), Ts("off", 125)}
RealVals == {Null, Num(3 * Den + 4)}
OverVals == {Null, Num(4 * Den)}
MergeMinutes == {0, 5}
MergeWindows == {[from |-> 0, to |-> 62], [from |-> 63, to |-> 120],
                 [from |-> 0, to |-> 120]}

RealJsons == SeqUpTo([t : MergeTs, v : RealVals], MaxReal)

ForecastJsons ==
    {[forecast_mode |-> "absolute_ts", forecast |-> f] :
        f \in SeqUpTo([ts : MergeTs, minute : {0}, value : OverVals], MaxOver)}
    \cup
    {[forecast_mode |-> "minutes_ahead", forecast |-> f] :
        f \in SeqUpTo([ts : {NoTs}, minute : MergeMinutes, value : OverVals], MaxOver)}

MergeInit ==
    /\ mReal \in RealJsons
    /\ mFc \in ForecastJsons
    /\ mDone = FALSE
    /\ metric = "sleep"
    /\ pollMs = 0
    /\ mode = "absolute"
    /\ relMinutes = 60
    /\ absFrom = 0
    /\ absTo = 62
    /\ currentRange = [from |-> 0, to |-> 62]
    /\ data = <<>>
    /\ overlay = <<>>
    /\ err = ""
    /\ loading = TRUE
    /\ clock = 60
    /\ seriesReqs = <<>>
    /\ overlayReqs = <<>>
    /\ dataStale = FALSE
    /\ dataJson = <<>>
    /\ PollIdle
    /\ HistIdle
    /\ NormIdle
    /\ DayIdle
    /\ FmtIdle
    /\ AppIdle

\* setData(points) of load and setOverlay(points) of loadOverlay.
MergeLoad ==
    /\ ~mDone
    /\ mDone' = TRUE
    /\ data' = SeriesPoints(mReal)
    /\ dataJson' = mReal
    /\ overlay' = OverlayPoints(mFc, clock)
    /\ loading' = FALSE
    /\ UNCHANGED <<metric, pollMs, mode, relMinutes, absFrom, absTo, currentRange, err,
                   clock, seriesReqs, overlayReqs, dataStale, pollVars, histVars,
                   mReal, mFc, normVars, dayVars, fmtVars, appVars>>

\* setAbsFrom / setAbsTo to another window; currentRange follows.
MergeWindow ==
    /\ \E w \in MergeWindows :
          /\ w # currentRange
          /\ absFrom' = w.from
          /\ absTo' = w.to
          /\ currentRange' = w
    /\ UNCHANGED <<metric, pollMs, mode, relMinutes, data, overlay, err, loading, clock,
                   seriesReqs, overlayReqs, dataStale, dataJson, pollVars, histVars,
                   mergeVars, normVars, dayVars, fmtVars, appVars>>

MergeNext == MergeLoad \/ MergeWindow

SpecMerge == MergeInit /\ [][MergeNext]_vars


(***************************************************************************)
(* The chart as a state machine.  Every handler is one step: the state it  *)
(* sets, the re-render (currentRange is recomputed when mode, relMinutes,  *)
(* absFrom or absTo changed) and the effects whose dependencies changed.   *)
(* A request stays in seriesReqs / overlayReqs until its response is       *)
(* handled; responses are handled in any order.  A request is marked       *)
(* stale once a later request for another window or metric is issued.      *)
(* Once the chart is unmounted its state is gone: the answers still on     *)
(* their way set nothing and are dropped with it.                          *)
(***************************************************************************)
MaxInFlight == 2
MaxTimers == 2

Clocks == {60, 65}
Presets == {60, 1440}
AbsDates == {62}
ChartTs == {Ts("ms", 60), Ts("ms", 65)}
ChartVals == {Num(3 * Den + 4)}
ChartSimVals == {Null, Num(4 * Den)}
ChartMinutes == {0}
SeriesFailures ==
    {[thrown |-> FALSE, error |-> "sin datos"],
     [thrown |-> FALSE, error |-> ""],
     [thrown |-> TRUE, error |-> "Failed to fetch"]}
PollChoices == {0, 5000}

\* The request load() sends with the state of the render it closes over.
SeriesKey(mt, md, rel, from, to) ==
    IF md = "absolute"
    THEN [metric |-> mt, mode |-> md, minutes |-> 0, from |-> from, to |-> to]
    ELSE [metric |-> mt, mode |-> md, minutes |-> rel, from |-> 0, to |-> 0]

\* The window the server reads for a request it answers at time now.
ServerWindow(key, now) ==
    IF key.mode = "absolute"
    THEN [from |-> key.from, to |-> key.to]
    ELSE [from |-> now - key.minutes, to |-> now]

\* json.points of a successful answer: measurements inside the requested
\* window, none of them in the future.
SeriesJsons(key, now) ==
    {<<>>} \cup
    {<<[t |-> ts, v |-> v]>> :
        ts \in {x \in ChartTs : /\ InRange(x, ServerWindow(key, now))
                                 /\ DateParse(x).ms <= now},
        v \in ChartVals}

\* A minutes_ahead forecast of two points, now and five minutes ahead.
TwoAhead ==
    <<[ts |-> NoTs, minute |-> 0, value |-> Num(4 * Den)],
      [ts |-> NoTs, minute |-> 5, value |-> Num(4 * Den)]>>

ChartForecasts ==
    {[forecast_mode |-> "absolute_ts", forecast |-> f] :
        f \in SeqUpTo([ts : ChartTs, minute : {0}, value : ChartSimVals], 1)}
    \cup
    {[forecast_mode |-> "minutes_ahead", forecast |-> f] :
        f \in SeqUpTo([ts : {NoTs}, minute : ChartMinutes, value : ChartSimVals], 1)
                 \cup {TwoAhead}}

\* useMemo(() => ..., [mode, relMinutes, absFrom, absTo])
RangeOf(md, rel, from, to, now) ==
    IF md = "absolute" THEN [from |-> from, to |-> to]
    ELSE [from |-> now - rel, to |-> now]

Supersede(reqs, key) ==
    [i \in 1..Len(reqs) |->
        IF reqs[i].key # key THEN [reqs[i] EXCEPT !.stale = TRUE] ELSE reqs[i]]

RemoveAt(reqs, i) ==
    [j \in 1..(Len(reqs) - 1) |-> IF j < i THEN reqs[j] ELSE reqs[j + 1]]

\* clearInterval(pollRef.current): the timer pollRef holds stops if it runs.
ClearInterval(t, ref) == IF ref = "live" THEN t - 1 ELSE t

\* Mount: the first render and its two effects (setLoading(true); load();
\* the polling timer if pollMs > 0; and loadOverlay()).
Init ==
    /\ metric = "sleep"
    /\ pollMs \in PollChoices
    /\ mode = "relative"
    /\ relMinutes = 60
    /\ clock = 60
    /\ absFrom = 60 - 30 * 24 * 60
    /\ absTo = 60
    /\ currentRange = RangeOf("relative", 60, 0, 0, 60)
    /\ data = <<>>
    /\ overlay = <<>>
    /\ err = ""
    /\ loading = TRUE
    /\ seriesReqs = <<[key |-> SeriesKey("sleep", "relative", 60, 0, 0),
                       stale |-> FALSE]>>
    /\ overlayReqs = <<[key |-> "sleep"]>>
    /\ dataStale = FALSE
    /\ dataJson = <<>>
    /\ timers = IF pollMs > 0 THEN 1 ELSE 0
    /\ pollRef = IF pollMs > 0 THEN "live" ELSE "null"
    /\ mounted = TRUE
    /\ seriesResult = "none"
    /\ overlayResult = "pending"
    /\ overlayNow = 0
    /\ overlayJson = NoForecast
    /\ NormIdle
    /\ MergeIdle
    /\ DayIdle
    /\ FmtIdle
    /\ AppIdle

\* load() up to its await: setErr("") and the request, built from the state
\* (mt, md, rel, from, to) of the render whose closure runs.
LoadStart(mt, md, rel, from, to) ==
    /\ Len(seriesReqs) < MaxInFlight
    /\ err' = ""
    /\ seriesReqs' =
           Append(Supersede(seriesReqs, SeriesKey(mt, md, rel, from, to)),
                  [key |-> SeriesKey(mt, md, rel, from, to), stale |-> FALSE])

\* The polling part of the series effect without any clearInterval: every
\* run of the effect leaves one more timer running.
RestartPollNoClear ==
    /\ timers' = IF pollMs > 0 THEN timers + 1 ELSE timers
    /\ pollRef' = IF pollMs > 0 THEN "live" ELSE pollRef
    /\ UNCHANGED mounted

\* The polling part of a re-run of the series effect: the cleanup of the
\* previous run, () => clearInterval(pollRef.current), then
\* clearInterval(pollRef.current); pollRef.current = setInterval(load, pollMs).
RestartPoll ==
    /\ timers' = IF pollMs > 0 THEN ClearInterval(timers, pollRef) + 1 ELSE timers
    /\ pollRef' = IF pollMs > 0 THEN "live" ELSE pollRef
    /\ UNCHANGED mounted

\* A re-run of the series effect (one of its dependencies changed), for the
\* render with state (md, rel, from, to): setLoading(true); load(); polling.
SeriesEffect(md, rel, from, to) ==
    /\ mounted
    /\ timers < MaxTimers
    /\ loading' = TRUE
    /\ LoadStart(metric, md, rel, from, to)
    /\ RestartPoll

\* ToggleButtonGroup onChange: v && setMode(v); the series effect re-runs.
SetMode ==
    \E v \in {"relative", "absolute"} :
        /\ v # mode
        /\ mode' = v
        /\ currentRange' = RangeOf(v, relMinutes, absFrom, absTo, clock)
        /\ SeriesEffect(v, relMinutes, absFrom, absTo)
        /\ UNCHANGED <<metric, pollMs, relMinutes, absFrom, absTo, data, overlay, clock,
                       overlayReqs, dataStale, dataJson, histVars,
                       normVars, mergeVars, dayVars, fmtVars, appVars>>

\* "Ultimos" select (shown in relative mode): setRelMinutes(Number(value)).
SetRelMinutes ==
    \E m \in Presets :
        /\ mode = "relative"
        /\ m # relMinutes
        /\ relMinutes' = m
        /\ currentRange' = RangeOf(mode, m, absFrom, absTo, clock)
        /\ SeriesEffect(mode, m, absFrom, absTo)
        /\ UNCHANGED <<metric, pollMs, mode, absFrom, absTo, data, overlay, clock,
                       overlayReqs, dataStale, dataJson, histVars,
                       normVars, mergeVars, dayVars, fmtVars, appVars>>

\* "Desde" field (shown in absolute mode): setAbsFrom(new Date(value)).
SetAbsFrom ==
    \E d \in AbsDates :
        /\ mode = "absolute"
        /\ d # absFrom
        /\ absFrom' = d
        /\ currentRange' = RangeOf(mode, relMinutes, d, absTo, clock)
        /\ SeriesEffect(mode, relMinutes, d, absTo)
        /\ UNCHANGED <<metric, pollMs, mode, relMinutes, absTo, data, overlay, clock,
                       overlayReqs, dataStale, dataJson, histVars,
                       normVars, mergeVars, dayVars, fmtVars, appVars>>

\* "Hasta" field (shown in absolute mode): setAbsTo(new Date(value)).
SetAbsTo ==
    \E d \in AbsDates :
        /\ mode = "absolute"
        /\ d # absTo
        /\ absTo' = d
        /\ currentRange' = RangeOf(mode, relMinutes, absFrom, d, clock)
        /\ SeriesEffect(mode, relMinutes, absFrom, d)
        /\ UNCHANGED <<metric, pollMs, mode, relMinutes, absFrom, data, overlay, clock,
                       overlayReqs, dataStale, dataJson, histVars,
                       normVars, mergeVars, dayVars, fmtVars, appVars>>

\* "Aplicar", refused: the window is empty or reversed.
ApplyRejected ==
    /\ mounted
    /\ mode = "absolute"
    /\ absFrom >= absTo
    /\ err' = "El 'desde' debe ser anterior al 'hasta'."
    /\ UNCHANGED <<metric, pollMs, mode, relMinutes, absFrom, absTo, currentRange, data,
                   overlay, loading, clock, seriesReqs, overlayReqs, dataStale,
                   dataJson, pollVars, histVars,
                   normVars, mergeVars, dayVars, fmtVars, appVars>>

\* "Aplicar", accepted: load() with the current state.
ApplyLoad ==
    /\ mounted
    /\ mode = "absolute"
    /\ absFrom < absTo
    /\ LoadStart(metric, mode, relMinutes, absFrom, absTo)
    /\ UNCHANGED <<metric, pollMs, mode, relMinutes, absFrom, absTo, currentRange, data,
                   overlay, loading, clock, overlayReqs, dataStale,
                   dataJson, pollVars, histVars,
                   normVars, mergeVars, dayVars, fmtVars, appVars>>

applyAbsolute == ApplyRejected \/ ApplyLoad

\* A tick of a running setInterval(load, pollMs) timer.  The timer is
\* restarted by every run of the series effect, so the load it calls closes
\* over the current state.
PollTick ==
    /\ timers > 0
    /\ LoadStart(metric, mode, relMinutes, absFrom, absTo)
    /\ UNCHANGED <<metric, pollMs, mode, relMinutes, absFrom, absTo, currentRange, data,
                   overlay, loading, clock, overlayReqs, dataStale,
                   dataJson, pollVars, histVars,
                   normVars, mergeVars, dayVars, fmtVars, appVars>>

\* The view is deactivated: React runs the cleanup of the series effect,
\* () => clearInterval(pollRef.current), which the effect returns only when
\* pollMs > 0.
Unmount ==
    /\ mounted
    /\ mounted' = FALSE
    /\ timers' = IF pollMs > 0 THEN ClearInterval(timers, pollRef) ELSE timers
    /\ pollRef' = IF pollMs > 0 /\ pollRef = "live" THEN "cleared" ELSE pollRef
    /\ seriesReqs' = <<>>
    /\ overlayReqs' = <<>>
    /\ UNCHANGED <<metric, pollMs, mode, relMinutes, absFrom, absTo, currentRange, data,
                   overlay, err, loading, clock, dataStale, dataJson, histVars,
                   normVars, mergeVars, dayVars, fmtVars, appVars>>

\* load() after its await, the i-th request answered with points:
\* setData(points), then setLoading(false).
SeriesOkWith(i, points) ==
    /\ mounted
    /\ seriesReqs' = RemoveAt(seriesReqs, i)
    /\ data' = SeriesPoints(points)
    /\ dataJson' = points
    /\ dataStale' = seriesReqs[i].stale
    /\ loading' = FALSE
    /\ UNCHANGED <<metric, pollMs, mode, relMinutes, absFrom, absTo, currentRange,
                   overlay, err, clock, overlayReqs, pollVars,
                   normVars, mergeVars, dayVars, fmtVars, appVars>>

SeriesOk ==
    \E i \in 1..Len(seriesReqs) :
      \E points \in SeriesJsons(seriesReqs[i].key, clock) :
        SeriesOkWith(i, points) /\ UNCHANGED histVars

\* A failing load that also empties the series.
SeriesFailClears(i, f) ==
    /\ mounted
    /\ seriesReqs' = RemoveAt(seriesReqs, i)
    /\ err' = IF f.thrown \/ f.error # "" THEN f.error
              ELSE "Error cargando serie"
    /\ data' = <<>>
    /\ loading' = FALSE
    /\ UNCHANGED <<metric, pollMs, mode, relMinutes, absFrom, absTo, currentRange,
                   overlay, clock, overlayReqs, dataStale, dataJson, pollVars,
                   normVars, mergeVars, dayVars, fmtVars, appVars>>

\* load() after its await, the i-th request failing as f: apiFetch or
\* res.json() threw, or the answer is !res.ok or ok === false and load throws
\* new Error(json.error || "Error cargando serie"); the catch does
\* setErr(String(e.message || e)), the finally setLoading(false).
SeriesFailWith(i, f) ==
    /\ mounted
    /\ seriesReqs' = RemoveAt(seriesReqs, i)
    /\ err' = IF f.thrown \/ f.error # "" THEN f.error
              ELSE "Error cargando serie"
    /\ loading' = FALSE
    /\ UNCHANGED <<metric, pollMs, mode, relMinutes, absFrom, absTo, currentRange,
                   data, overlay, clock, overlayReqs, dataStale, dataJson, pollVars,
                   normVars, mergeVars, dayVars, fmtVars, appVars>>

SeriesFail ==
    \E i \in 1..Len(seriesReqs) : \E f \in SeriesFailures :
        SeriesFailWith(i, f) /\ UNCHANGED histVars

\* loadOverlay() after its await, res.ok && json.ok: setOverlay(points),
\* the points converted with the Date.now() of this moment.
OverlayOkWith(i, json) ==
    /\ mounted
    /\ overlayReqs' = RemoveAt(overlayReqs, i)
    /\ overlay' = OverlayPoints(json, clock)
    /\ UNCHANGED <<metric, pollMs, mode, relMinutes, absFrom, absTo, currentRange,
                   data, err, loading, clock, seriesReqs, dataStale,
                   dataJson, pollVars,
                   normVars, mergeVars, dayVars, fmtVars, appVars>>

OverlayOk ==
    \E i \in 1..Len(overlayReqs) : \E json \in ChartForecasts :
        OverlayOkWith(i, json) /\ UNCHANGED histVars

\* A "no forecast" answer reported as an error.
OverlayNoneAsError(i) ==
    /\ mounted
    /\ overlayReqs' = RemoveAt(overlayReqs, i)
    /\ overlay' = <<>>
    /\ err' = "No hay simulacion"
    /\ UNCHANGED <<metric, pollMs, mode, relMinutes, absFrom, absTo, currentRange,
                   data, loading, clock, seriesReqs, dataStale,
                   dataJson, pollVars,
                   normVars, mergeVars, dayVars, fmtVars, appVars>>

\* loadOverlay() after its await, the answer not being res.ok && json.ok
\* (no forecast): the else branch, setOverlay([]).
OverlayNoneOf(i) ==
    /\ mounted
    /\ overlayReqs' = RemoveAt(overlayReqs, i)
    /\ overlay' = <<>>
    /\ UNCHANGED <<metric, pollMs, mode, relMinutes, absFrom, absTo, currentRange,
                   data, err, loading, clock, seriesReqs, dataStale,
                   dataJson, pollVars,
                   normVars, mergeVars, dayVars, fmtVars, appVars>>

OverlayNone == \E i \in 1..Len(overlayReqs) : OverlayNoneOf(i) /\ UNCHANGED histVars

\* loadOverlay() after its await, apiFetch or res.json() having thrown:
\* catch { setOverlay([]) }.
OverlayFailOf(i) ==
    /\ mounted
    /\ overlayReqs' = RemoveAt(overlayReqs, i)
    /\ overlay' = <<>>
    /\ UNCHANGED <<metric, pollMs, mode, relMinutes, absFrom, absTo, currentRange,
                   data, err, loading, clock, seriesReqs, dataStale,
                   dataJson, pollVars,
                   normVars, mergeVars, dayVars, fmtVars, appVars>>

OverlayFail == \E i \in 1..Len(overlayReqs) : OverlayFailOf(i) /\ UNCHANGED histVars

\* Time passes.
Tick ==
    /\ mounted
    /\ \E t \in Clocks : t > clock /\ clock' = t
    /\ UNCHANGED <<metric, pollMs, mode, relMinutes, absFrom, absTo, currentRange, data,
                   overlay, err, loading, seriesReqs, overlayReqs, dataStale,
                   dataJson, pollVars, histVars,
                   normVars, mergeVars, dayVars, fmtVars, appVars>>

Next ==
    \/ SetMode
    \/ SetRelMinutes
    \/ SetAbsFrom
    \/ SetAbsTo
    \/ applyAbsolute
    \/ PollTick
    \/ Unmount
    \/ SeriesOk
    \/ SeriesFail
    \/ OverlayOk
    \/ OverlayNone
    \/ OverlayFail
    \/ Tick

Spec == Init /\ [][Next]_vars

(***************************************************************************)
(* The loads of a chart that does not poll, with a record of how they      *)
(* ended: the same handlers, each response also noted in seriesResult,     *)
(* overlayResult, overlayNow and overlayJson.  The window is changed by    *)
(* the mode toggle, and "Aplicar" reloads the series.                      *)
(***************************************************************************)
LoadsInit == Init /\ pollMs = 0

LoadsSeriesOk ==
    \E i \in 1..Len(seriesReqs) :
      \E points \in SeriesJsons(seriesReqs[i].key, clock) :
        /\ SeriesOkWith(i, points)
        /\ seriesResult' = "ok"
        /\ UNCHANGED <<overlayResult, overlayNow, overlayJson>>

LoadsSeriesFail ==
    \E i \in 1..Len(seriesReqs) : \E f \in SeriesFailures :
        /\ SeriesFailWith(i, f)
        /\ seriesResult' = "failed"
        /\ UNCHANGED <<overlayResult, overlayNow, overlayJson>>

\* const nowMs = Date.now() is read for a minutes_ahead forecast only.
LoadsOverlayOk ==
    \E i \in 1..Len(overlayReqs) : \E json \in ChartForecasts :
        /\ OverlayOkWith(i, json)
        /\ overlayResult' = "points"
        /\ overlayNow' = IF json.forecast_mode = "absolute_ts" THEN overlayNow ELSE clock
        /\ overlayJson' = json
        /\ UNCHANGED seriesResult

LoadsOverlayNone ==
    \E i \in 1..Len(overlayReqs) :
        /\ OverlayNoneOf(i)
        /\ overlayResult' = "none"
        /\ UNCHANGED <<seriesResult, overlayNow, overlayJson>>

LoadsOverlayFail ==
    \E i \in 1..Len(overlayReqs) :
        /\ OverlayFailOf(i)
        /\ overlayResult' = "failed"
        /\ UNCHANGED <<seriesResult, overlayNow, overlayJson>>

LoadsNext ==
    \/ SetMode
    \/ ApplyLoad
    \/ LoadsSeriesOk
    \/ LoadsSeriesFail
    \/ LoadsOverlayOk
    \/ LoadsOverlayNone
    \/ LoadsOverlayFail
    \/ Tick

SpecLoads == LoadsInit /\ [][LoadsNext]_vars

(***************************************************************************)
(* The day lookup, fetchAdviceByDate.  Instants are minutes since local    *)
(* midnight of the requested date.  The function runs from one await to    *)
(* the next; advPc is the await it is suspended at.                        *)
(***************************************************************************)
MaxDay == 3

DayDates == {"", "2024-01-01"}
DayNoon == 12 * 60
DayEnd == 24 * 60 - 1
DayTs == {Null, Ts("ms", 8 * 60), Ts("ms", 16 * 60), Ts("ms", 20 * 60)}
DayJsons == SeqUpTo([t : DayTs, v : {Num(3 * Den)}], MaxDay)
ByDateJsons == {[ts |-> Ts("ms", 8 * 60)], [ts |-> Undefined]}
DayFailures == {"", "sin datos"}

Abs(x) == IF x < 0 THEN -x ELSE x

\* new Date(p.t).getTime()
GetTime(ts) == DateParse(ts).ms

AdvReq(kind, date, from, to, ts) ==
    [kind |-> kind, date |-> date, from |-> from, to |-> to, ts |-> ts]

\* (j2.points || []).filter(p => p?.t)
WithT(points) == LET HasT(p) == p.t # Null IN SelectSeq(points, HasT)

\* The loop with <= for <: among equally near points the last one wins.
RECURSIVE NearestFromLast(_, _, _, _)
NearestFromLast(points, noon, best, bestDiff) ==
    IF points = <<>> THEN best
    ELSE LET p == Head(points)
             d == Abs(GetTime(p.t) - noon)
         IN  IF d <= bestDiff
             THEN NearestFromLast(Tail(points), noon, p, d)
             ELSE NearestFromLast(Tail(points), noon, best, bestDiff)

\* for (const p of points) { const d = ...; if (d < bestDiff) { best = p; bestDiff = d; } }
RECURSIVE NearestFrom(_, _, _, _)
NearestFrom(points, noon, best, bestDiff) ==
    IF points = <<>> THEN best
    ELSE LET p == Head(points)
             d == Abs(GetTime(p.t) - noon)
         IN  IF d < bestDiff
             THEN NearestFrom(Tail(points), noon, p, d)
             ELSE NearestFrom(Tail(points), noon, best, bestDiff)

\* let best = points[0]; let bestDiff = |points[0] - noon|; the loop.
NearestToNoon(points, noon) ==
    NearestFrom(points, noon, points[1], Abs(GetTime(points[1].t) - noon))

DayInit ==
    /\ adviceDate \in DayDates
    /\ adviceMsg = Null
    /\ adviceLoading = FALSE
    /\ selectedTs = Null
    /\ detail = Null
    /\ detailErr = ""
    /\ detailOpen = FALSE
    /\ detailLoading = FALSE
    /\ advPc = "idle"
    /\ advReqs = <<>>
    /\ advTrace = <<>>
    /\ advPoints = <<>>
    /\ ChartIdle
    /\ NormIdle
    /\ MergeIdle
    /\ FmtIdle
    /\ AppIdle

\* fetchAdviceByDate up to its first await: if (!adviceDate) return;
\* setAdviceMsg(null); setAdviceLoading(true); the by-date request.
fetchAdviceByDate ==
    /\ advPc = "idle"
    /\ IF adviceDate = ""
       THEN /\ advPc' = "done"
            /\ UNCHANGED <<adviceMsg, adviceLoading, advReqs>>
       ELSE /\ advPc' = "by_date"
            /\ adviceMsg' = Null
            /\ adviceLoading' = TRUE
            /\ advReqs' = Append(advReqs, AdvReq("by_date", adviceDate, 0, 0, NoTs))
    /\ UNCHANGED <<adviceDate, selectedTs, detail, detailErr, detailOpen, detailLoading,
                   advTrace, advPoints, chartVars, normVars, mergeVars, fmtVars, appVars>>

\* r1.ok && j1?.ok: the day's record is shown.
AdviceByDateHit ==
    \E j1 \in ByDateJsons :
        /\ advPc = "by_date"
        /\ selectedTs' = IF j1.ts = Undefined THEN Null ELSE j1.ts
        /\ detail' = j1
        /\ detailErr' = ""
        /\ detailOpen' = TRUE
        /\ adviceLoading' = FALSE
        /\ advPc' = "done"
        /\ advTrace' = Append(advTrace, "hit")
        /\ UNCHANGED <<adviceDate, adviceMsg, detailLoading, advReqs, advPoints,
                       chartVars, normVars, mergeVars, fmtVars, appVars>>

\* The by-date answer is not a success (or its body is no JSON): the day's
\* series is requested, from T00:00:00 to T23:59:59.
AdviceByDateMiss ==
    /\ advPc = "by_date"
    /\ advReqs' = Append(advReqs, AdvReq("series", adviceDate, 0, DayEnd, NoTs))
    /\ advPc' = "series"
    /\ advTrace' = Append(advTrace, "miss")
    /\ UNCHANGED <<adviceDate, adviceMsg, adviceLoading, selectedTs, detail, detailErr,
                   detailOpen, detailLoading, advPoints, chartVars, normVars, mergeVars, fmtVars, appVars>>

\* apiFetch of the by-date request rejects: the catch.
AdviceByDateThrown ==
    /\ advPc = "by_date"
    /\ adviceMsg' = [type |-> "error", text |-> "Failed to fetch"]
    /\ adviceLoading' = FALSE
    /\ advPc' = "done"
    /\ advTrace' = Append(advTrace, "thrown")
    /\ UNCHANGED <<adviceDate, selectedTs, detail, detailErr, detailOpen, detailLoading,
                   advReqs, advPoints, chartVars, normVars, mergeVars, fmtVars, appVars>>

\* !r2.ok || j2.ok === false: throw new Error(j2?.error || "No hay datos para
\* ese dia"), caught below.
AdviceSeriesFailed ==
    \E e \in DayFailures :
        /\ advPc = "series"
        /\ adviceMsg' = [type |-> "error",
                         text |-> IF e # "" THEN e ELSE "No hay datos para ese dia"]
        /\ adviceLoading' = FALSE
        /\ advPc' = "done"
        /\ advTrace' = Append(advTrace, "failed")
        /\ UNCHANGED <<adviceDate, selectedTs, detail, detailErr, detailOpen,
                       detailLoading, advReqs, advPoints, chartVars, normVars, mergeVars, fmtVars, appVars>>

\* An empty day that still opens the detail and asks for a point.
AdviceSeriesEmptyOpens ==
    \E points \in DayJsons :
        /\ advPc = "series"
        /\ WithT(points) = <<>>
        /\ advPoints' = points
        /\ detailOpen' = TRUE
        /\ advReqs' = Append(advReqs, AdvReq("detail", adviceDate, 0, 0, NoTs))
        /\ adviceLoading' = FALSE
        /\ advPc' = "done"
        /\ advTrace' = Append(advTrace, "empty")
        /\ UNCHANGED <<adviceDate, adviceMsg, selectedTs, detail, detailErr,
                       detailLoading, chartVars, normVars, mergeVars, fmtVars, appVars>>

\* points.length === 0: the warning, and the lookup ends.
AdviceSeriesEmpty ==
    \E points \in DayJsons :
        /\ advPc = "series"
        /\ WithT(points) = <<>>
        /\ advPoints' = points
        /\ adviceMsg' = [type |-> "warning", text |-> "No hay medicion para esa fecha."]
        /\ adviceLoading' = FALSE
        /\ advPc' = "done"
        /\ advTrace' = Append(advTrace, "empty")
        /\ UNCHANGED <<adviceDate, selectedTs, detail, detailErr, detailOpen,
                       detailLoading, advReqs, chartVars, normVars, mergeVars, fmtVars, appVars>>

\* The point nearest to noon is selected, the detail dialog opened and
\* fetchDetail(tsISO) run up to its await: setDetailLoading(true);
\* setDetailErr(""); setDetail(null); the point-detail request.
AdviceSeriesNearest ==
    \E points \in DayJsons :
        /\ advPc = "series"
        /\ WithT(points) # <<>>
        /\ advPoints' = points
        /\ selectedTs' = NearestToNoon(WithT(points), DayNoon).t
        /\ detailOpen' = TRUE
        /\ detailLoading' = TRUE
        /\ detailErr' = ""
        /\ detail' = Null
        /\ advReqs' = Append(advReqs,
               AdvReq("detail", adviceDate, 0, 0,
                      NearestToNoon(WithT(points), DayNoon).t))
        /\ advPc' = "detail"
        /\ advTrace' = Append(advTrace, "nearest")
        /\ UNCHANGED <<adviceDate, adviceMsg, adviceLoading, chartVars, normVars, mergeVars, fmtVars, appVars>>

\* fetchDetail after its await, a success: setDetail(json); finally
\* setDetailLoading(false); back in fetchAdviceByDate, setAdviceLoading(false).
AdviceDetailOk ==
    /\ advPc = "detail"
    /\ detail' = [ts |-> selectedTs]
    /\ detailLoading' = FALSE
    /\ adviceLoading' = FALSE
    /\ advPc' = "done"
    /\ advTrace' = Append(advTrace, "detail_ok")
    /\ UNCHANGED <<adviceDate, adviceMsg, selectedTs, detailErr, detailOpen, advReqs,
                   advPoints, chartVars, normVars, mergeVars, fmtVars, appVars>>

\* fetchDetail after its await, a failure: setDetailErr(message); finally
\* setDetailLoading(false); back in fetchAdviceByDate, setAdviceLoading(false).
AdviceDetailFailed ==
    \E e \in DayFailures :
        /\ advPc = "detail"
        /\ detailErr' = IF e # "" THEN e ELSE "No hay detalle para ese punto"
        /\ detailLoading' = FALSE
        /\ adviceLoading' = FALSE
        /\ advPc' = "done"
        /\ advTrace' = Append(advTrace, "detail_failed")
        /\ UNCHANGED <<adviceDate, adviceMsg, selectedTs, detail, detailOpen, advReqs,
                       advPoints, chartVars, normVars, mergeVars, fmtVars, appVars>>

DayNext ==
    \/ fetchAdviceByDate
    \/ AdviceByDateHit
    \/ AdviceByDateMiss
    \/ AdviceByDateThrown
    \/ AdviceSeriesFailed
    \/ AdviceSeriesEmpty
    \/ AdviceSeriesNearest
    \/ AdviceDetailOk
    \/ AdviceDetailFailed

SpecDay == DayInit /\ [][DayNext]_vars

(***************************************************************************)
(* formatFeatureValue on its own.  A key is kept lower-cased and split at  *)
(* its underscores, "tracker_total_distance_mm" being the sequence         *)
(* <<"tracker", "total", "distance", "mm">>; each regular expression is    *)
(* the test it makes on the last parts of the key.  A formatted number is  *)
(* kept as the integer count of its last shown decimal.                    *)
(***************************************************************************)
FmtPrefixes == {<<>>, <<"tracker", "total">>, <<"summit">>}
FmtNames == {"distance", "dist", "altitude", "elevation"}
FmtSuffixes == {<<>>, <<"mm">>, <<"m">>, <<"km">>}
FmtKeys ==
    {pre \o <<name>> \o suf :
        pre \in FmtPrefixes, name \in FmtNames, suf \in FmtSuffixes}
    \cup {<<"tracker", "total", "steps">>, <<"distancekm">>, <<"altitudemm">>}
FmtValues ==
    {Null, TextStr, NumStr(500 * Den)}
    \cup {Num(n) : n \in {-5 * Den, 0, 100 * Den - 1, 100 * Den, 100 * Den + 1,
                          500 * Den, 10000 * Den - 1, 10000 * Den,
                          10000 * Den + 1, 12345 * Den + 6}}
FmtMetrics == {"activity", "sleep"}

DistNames == {"dist", "distance"}
AltNames == {"altitude", "alt", "elevation", "ascent", "descent", "gain", "loss"}
MmEnds == {"mm", "mms"}
Fused(names, ends) == {n \o e : n \in names, e \in ends}

\* The parts that contain the letters "mm".
MmParts ==
    MmEnds \cup Fused(DistNames \cup AltNames, MmEnds)
        \cup {"summit", "millimeter", "millimeters", "millimetre", "millimetres"}

Last(k) == k[Len(k)]
Prev(k) == IF Len(k) >= 2 THEN k[Len(k) - 1] ELSE ""

\* /(^|_)NAME_?END$/ for NAME in names and END in ends
EndsNameEnd(k, names, ends) ==
    \/ Last(k) \in ends /\ Prev(k) \in names
    \/ Last(k) \in Fused(names, ends)

\* /(^|_)NAME_(?!(mm|mms?)$)m$/
EndsNameM(k, names) == Last(k) = "m" /\ Prev(k) \in names

\* /(^|_)NAME$/
EndsName(k, names) == Last(k) \in names

\* /mm/.test(k)
HasMm(k) == \E i \in 1..Len(k) : k[i] \in MmParts

\* /(millimeter|millimetre)/.test(k)
HasMillimetre(k) ==
    \E i \in 1..Len(k) :
        k[i] \in {"millimeter", "millimeters", "millimetre", "millimetres"}

Pow10(d) == IF d = 2 THEN 100 ELSE 1000

\* (num / div).toFixed(d) followed by the unit: the nearest multiple of
\* 10^-d, a tie going away from zero.
Fixed(num, div, d, unit) ==
    LET a == Abs(num.n)
        q == (2 * a * Pow10(d) + Den * div) \div (2 * Den * div)
    IN  [kind |-> "num", shown |-> IF num.n < 0 THEN -q ELSE q,
         digits |-> d, unit |-> unit, of |-> Null]

\* String(value)
StringOf(value) ==
    [kind |-> "text", shown |-> 0, digits |-> 0, unit |-> "", of |-> value]

Dash == [kind |-> "dash", shown |-> 0, digits |-> 0, unit |-> "", of |-> Null]

\* if (num > 10000) mm shown in m; if (num > 100) m; else km.
ByMagnitude(num, value) ==
    IF IsFinite(num)
    THEN IF num.n > 10000 * Den THEN Fixed(num, 1000, 2, "m")
         ELSE IF num.n > 100 * Den THEN Fixed(num, 1, 2, "m")
         ELSE Fixed(num, 1, 3, "km")
    ELSE StringOf(value)

BySuffix(num, value, div, d, unit) ==
    IF IsFinite(num) THEN Fixed(num, div, d, unit) ELSE StringOf(value)

\* formatFeatureValue(key, value) of a chart whose metric is mt.
formatFeatureValue(mt, k, value) ==
    LET num == Number(value)
    IN  IF value \in {Null, Undefined} THEN Dash
        ELSE IF mt # "activity" THEN StringOf(value)
        ELSE IF EndsNameEnd(k, DistNames, MmEnds) \/ HasMillimetre(k)
             THEN BySuffix(num, value, 1000, 2, "m")
        ELSE IF EndsNameM(k, DistNames) THEN BySuffix(num, value, 1, 2, "m")
        ELSE IF EndsNameEnd(k, DistNames, {"km"}) THEN BySuffix(num, value, 1, 3, "km")
        ELSE IF EndsName(k, DistNames) THEN ByMagnitude(num, value)
        ELSE IF (EndsName(k, AltNames) \/ EndsNameEnd(k, AltNames, MmEnds)) /\ HasMm(k)
             THEN BySuffix(num, value, 1000, 2, "m")
        ELSE IF EndsNameM(k, AltNames) THEN BySuffix(num, value, 1, 2, "m")
        ELSE IF EndsNameEnd(k, AltNames, {"km"}) THEN BySuffix(num, value, 1, 3, "km")
        ELSE IF EndsName(k, AltNames) THEN ByMagnitude(num, value)
        ELSE StringOf(value)

FmtInit ==
    /\ metric \in FmtMetrics
    /\ fKey \in FmtKeys
    /\ fValue \in FmtValues
    /\ fOut = Unset
    /\ ChartStateIdle
    /\ NormIdle
    /\ MergeIdle
    /\ DayIdle
    /\ AppIdle

FmtApply ==
    /\ fOut = Unset
    /\ fOut' = formatFeatureValue(metric, fKey, fValue)
    /\ UNCHANGED <<fKey, fValue, chartVars, normVars, mergeVars, dayVars, appVars>>

FmtNext == FmtApply

SpecFmt == FmtInit /\ [][FmtNext]_vars

(***************************************************************************)
(* usePermissions (frontend/src/hooks/usePermissions.js).  Every run of    *)
(* the effect has its own `ignore`, set by the cleanup that React runs     *)
(* when isAuthenticated changes or the component unmounts.  A change of    *)
(* isAuthenticated is one step: the cleanup of the previous run, then the  *)
(* new run up to its first await.                                          *)
(***************************************************************************)
MaxRuns == 3

\* data.permissions of a successful answer, when the field is there.
PermLists == {<<>>, <<"read:metrics">>, <<"read:metrics", "admin:all">>}

\* How apiFetch("/me/permissions") can end: a response that is ok (its body
\* with or without the field permissions), one that is not, or a rejection.
PermAnswers ==
    {[kind |-> "ok", missing |-> FALSE, permissions |-> l] : l \in PermLists}
        \cup {[kind |-> k, missing |-> TRUE, permissions |-> <<>>] :
                  k \in {"ok", "refused", "thrown"}}

\* data.permissions || []
PermsOr(a) == IF a.missing THEN <<>> ELSE a.permissions

\* A run of the effect suspended at await apiFetch(...), `let ignore = false`.
NewRun == [ignore |-> FALSE, stage |-> "fetch", answer |-> Null]

\* return () => { ignore = true; } for the runs still awaiting their answer.
PermCleanup(runs) == [i \in 1..Len(runs) |-> [runs[i] EXCEPT !.ignore = TRUE]]

\* The effect body for the value `auth` of isAuthenticated, up to its first
\* await.
PermEffect(auth, runs) ==
    IF ~auth
    THEN /\ perms' = <<>>
         /\ permLoading' = FALSE
         /\ permRuns' = runs
    ELSE /\ permLoading' = TRUE
         /\ permRuns' = Append(runs, NewRun)
         /\ UNCHANGED perms

\* The state after the mount and the first effect run.
PermInit ==
    /\ isAuthenticated \in BOOLEAN
    /\ permMounted = TRUE
    /\ permDropped = FALSE
    /\ perms = <<>>
    /\ permLoading = isAuthenticated
    /\ permRuns = IF isAuthenticated THEN <<NewRun>> ELSE <<>>
    /\ ChartIdle /\ NormIdle /\ MergeIdle /\ DayIdle /\ FmtIdle
    /\ FetchIdle /\ GateIdle /\ DetIdle /\ SimIdle /\ ClampIdle

permOthers == <<chartSide, fetchVars, gateVars, detVars, simVars, clampVars>>

\* Auth0 reports a change of isAuthenticated: re-render, cleanup, effect.
AuthChange ==
    /\ permMounted
    /\ Len(permRuns) < MaxRuns
    /\ isAuthenticated' = ~isAuthenticated
    /\ PermEffect(~isAuthenticated, PermCleanup(permRuns))
    /\ UNCHANGED <<permMounted, permDropped, permOthers>>

PermUnmount ==
    /\ permMounted
    /\ permMounted' = FALSE
    /\ permRuns' = PermCleanup(permRuns)
    /\ UNCHANGED <<isAuthenticated, perms, permLoading, permDropped, permOthers>>

\* The component using the hook is mounted again: fresh state (perms = [],
\* loading = true), then the effect.  Requests of the earlier mount may
\* still be in flight.
PermMount ==
    /\ ~permMounted
    /\ Len(permRuns) < MaxRuns
    /\ permMounted' = TRUE
    /\ IF isAuthenticated
       THEN /\ perms' = <<>>
            /\ permLoading' = TRUE
            /\ permRuns' = Append(permRuns, NewRun)
       ELSE /\ perms' = <<>>
            /\ permLoading' = FALSE
            /\ permRuns' = permRuns
    /\ UNCHANGED <<isAuthenticated, permDropped, permOthers>>

\* The commits of lines 20-27 made whether or not the run has been cleaned up.
PermCommitNoIgnore(i, value) ==
    /\ perms' = value
    /\ permLoading' = FALSE

\* if (!ignore) setPerms(value); ... finally { if (!ignore) setLoading(false); }
PermCommit(i, value) ==
    IF permRuns[i].ignore
    THEN UNCHANGED <<perms, permLoading>>
    ELSE /\ perms' = value
         /\ permLoading' = FALSE

\* await apiFetch(...) of run i ends.  An ok response leaves the run at
\* await res.json(); any other outcome ends it (lines 21-28).
PermAnswer(i, a) ==
    /\ i \in 1..Len(permRuns)
    /\ permRuns[i].stage = "fetch"
    /\ IF a.kind = "ok"
       THEN /\ permRuns' = [permRuns EXCEPT ![i].stage = "json", ![i].answer = a]
            /\ UNCHANGED <<perms, permLoading, permDropped>>
       ELSE /\ permRuns' = RemoveAt(permRuns, i)
            /\ permDropped' = (permDropped \/ permRuns[i].ignore)
            /\ PermCommit(i, <<>>)
    /\ UNCHANGED <<isAuthenticated, permMounted, permOthers>>

\* await res.json() of run i ends: with the parsed body, or by throwing when
\* the body is not JSON (lines 19-20, 24-28).
PermBody(i, parsed) ==
    /\ i \in 1..Len(permRuns)
    /\ permRuns[i].stage = "json"
    /\ permRuns' = RemoveAt(permRuns, i)
    /\ permDropped' = (permDropped \/ permRuns[i].ignore)
    /\ PermCommit(i, IF parsed THEN PermsOr(permRuns[i].answer) ELSE <<>>)
    /\ UNCHANGED <<isAuthenticated, permMounted, permOthers>>

PermArrival ==
    \E i \in 1..Len(permRuns) :
        \/ \E a \in PermAnswers : PermAnswer(i, a)
        \/ \E parsed \in BOOLEAN : PermBody(i, parsed)

PermNext == AuthChange \/ PermUnmount \/ PermMount \/ PermArrival

\* Every request is answered or rejected in the end.
SpecPerms == PermInit /\ [][PermNext]_vars /\ WF_vars(PermArrival)

(***************************************************************************)
(* apiFetch (frontend/src/lib/apiFetch.js): one call, followed through its *)
(* awaits.  Tokens are numbered in the order the authorization server      *)
(* issues them; the Auth0 cache holds the last one issued.                 *)
(***************************************************************************)
AfPaths == {"/me/permissions", "/metrics/series"}

AfStatuses == {200, 401, 403, 500}

AfCalls == [path : AfPaths, isForm : BOOLEAN, retry : BOOLEAN]

\* buildRequest(url, options, token), with the way the token was obtained.
buildRequest(call, token, cacheMode) ==
    [url |-> <<"API", call.path>>,
     authorization |-> <<"Bearer", token>>,
     contentType |-> IF call.isForm THEN "unset" ELSE "application/json",
     cacheMode |-> cacheMode,
     status |-> 0]

\* A retry after any failure status.
RetryOnFailure(status, retry) == status >= 400 /\ retry

\* res.status === 401 && retry
ShouldRetry(status, retry) == status = 401 /\ retry

FetchInit ==
    /\ afCall \in AfCalls
    /\ afCache \in {0, 1}
    /\ afMinted = afCache
    /\ afPc = "withToken"
    /\ afToken = 0
    /\ afSent = <<>>
    /\ afRes = Null
    /\ ChartIdle /\ NormIdle /\ MergeIdle /\ DayIdle /\ FmtIdle
    /\ PermIdle /\ GateIdle /\ DetIdle /\ SimIdle /\ ClampIdle

fetchOthers == <<chartSide, permVars, gateVars, detVars, simVars, clampVars>>

\* await withToken(false) resolves with the cached token, then the first
\* request is built and sent.
TokenFromCache ==
    /\ afPc = "withToken"
    /\ afCache # 0
    /\ afToken' = afCache
    /\ afSent' = Append(afSent, buildRequest(afCall, afCache, "default"))
    /\ afPc' = "fetch"
    /\ UNCHANGED <<afCall, afCache, afMinted, afRes, fetchOthers>>

\* await withToken(false) resolves with a token the SDK had to obtain: the
\* cache was empty or its token had expired.
TokenObtained ==
    /\ afPc = "withToken"
    /\ afMinted' = afMinted + 1
    /\ afCache' = afMinted + 1
    /\ afToken' = afMinted + 1
    /\ afSent' = Append(afSent, buildRequest(afCall, afMinted + 1, "default"))
    /\ afPc' = "fetch"
    /\ UNCHANGED <<afCall, afRes, fetchOthers>>

\* The first response arrives (lines 55-64).
FirstResponse(status) ==
    /\ afPc = "fetch"
    /\ afSent' = [afSent EXCEPT ![1].status = status]
    /\ IF ShouldRetry(status, afCall.retry)
       THEN afPc' = "withTokenFresh" /\ UNCHANGED afRes
       ELSE afPc' = "returned" /\ afRes' = Num(status)
    /\ UNCHANGED <<afCall, afCache, afMinted, afToken, fetchOthers>>

\* await withToken(true) resolves: cacheMode "off" makes the SDK obtain a new
\* token; the second request is built and sent (lines 59-61).
TokenFresh ==
    /\ afPc = "withTokenFresh"
    /\ afMinted' = afMinted + 1
    /\ afCache' = afMinted + 1
    /\ afToken' = afMinted + 1
    /\ afSent' = Append(afSent, buildRequest(afCall, afMinted + 1, "off"))
    /\ afPc' = "fetchAgain"
    /\ UNCHANGED <<afCall, afRes, fetchOthers>>

\* The second response arrives and is returned whatever its status.
SecondResponse(status) ==
    /\ afPc = "fetchAgain"
    /\ afSent' = [afSent EXCEPT ![2].status = status]
    /\ afPc' = "returned"
    /\ afRes' = Num(status)
    /\ UNCHANGED <<afCall, afCache, afMinted, afToken, fetchOthers>>

\* getAccessTokenSilently or fetch rejects: apiFetch rejects with it.
FetchRejected ==
    /\ afPc \in {"withToken", "fetch", "withTokenFresh", "fetchAgain"}
    /\ afPc' = "rejected"
    /\ UNCHANGED <<afCall, afCache, afMinted, afToken, afSent, afRes, fetchOthers>>

FetchNext ==
    \/ TokenFromCache
    \/ TokenObtained
    \/ \E status \in AfStatuses : FirstResponse(status)
    \/ TokenFresh
    \/ \E status \in AfStatuses : SecondResponse(status)
    \/ FetchRejected

SpecFetch == FetchInit /\ [][FetchNext]_vars

(***************************************************************************)
(* FirstVisitGate (unnamed/part_007).  The effect depends on               *)
(* [isAuthenticated, isLoading, loginWithRedirect]; localStorage outlives  *)
(* the page, the component's state does not.                               *)
(***************************************************************************)
MaxVisits == 4
MaxRemovals == 2

\* One entry of gateOps: what the effect did and the Auth0 state it ran with.
GateOp(op, busy, auth) == [op |-> op, isLoading |-> busy, isAuthenticated |-> auth]

\* An effect run that starts the redirect without marking the visit.
GateEffectNoMark(busy, auth, key, storable) ==
    IF busy \/ auth \/ key # Null
    THEN smHasVisited' = key /\ UNCHANGED gateOps
    ELSE /\ smHasVisited' = key
         /\ gateOps' = Append(gateOps, GateOp("loginWithRedirect", busy, auth))

\* One run of the effect (lines 15-31) with the Auth0 state (busy = isLoading, auth = isAuthenticated)
\* and the stored key `key`; `storable` is false when localStorage.setItem
\* throws, which ends the effect before the redirect.
GateEffect(busy, auth, key, storable) ==
    IF busy \/ auth \/ key # Null
    THEN smHasVisited' = key /\ UNCHANGED gateOps
    ELSE IF ~storable
         THEN smHasVisited' = key /\ UNCHANGED gateOps
         ELSE /\ smHasVisited' = TextStr
              /\ gateOps' = gateOps \o <<GateOp("setItem", busy, auth),
                                         GateOp("loginWithRedirect", busy, auth)>>

\* The first page visit, Auth0 still loading: the mount effect returns at
\* once.  A returning visitor has the key already.
GateInit ==
    /\ gateLoading = TRUE
    /\ gateAuth = FALSE
    /\ smHasVisited \in {Null, TextStr}
    /\ gateOps = <<>>
    /\ gateRemoved = 0
    /\ gateVisits = 1
    /\ ChartIdle /\ NormIdle /\ MergeIdle /\ DayIdle /\ FmtIdle
    /\ PermIdle /\ FetchIdle /\ DetIdle /\ SimIdle /\ ClampIdle

gateOthers == <<chartSide, permVars, fetchVars, detVars, simVars, clampVars>>

\* Auth0 finishes loading, with or without a session.
Auth0Loaded ==
    /\ gateLoading
    /\ \E auth \in BOOLEAN, storable \in BOOLEAN :
          /\ gateLoading' = FALSE
          /\ gateAuth' = auth
          /\ GateEffect(FALSE, auth, smHasVisited, storable)
    /\ UNCHANGED <<gateRemoved, gateVisits, gateOthers>>

\* The user signs in (popup, button) or out without leaving the page.
GateAuthChange ==
    /\ ~gateLoading
    /\ gateAuth' = ~gateAuth
    /\ \E storable \in BOOLEAN : GateEffect(FALSE, ~gateAuth, smHasVisited, storable)
    /\ UNCHANGED <<gateLoading, gateRemoved, gateVisits, gateOthers>>

\* The effect runs again with the same Auth0 state: loginWithRedirect has a
\* new identity, or React re-runs the effect.
GateRerun ==
    /\ \E storable \in BOOLEAN : GateEffect(gateLoading, gateAuth, smHasVisited, storable)
    /\ UNCHANGED <<gateLoading, gateAuth, gateRemoved, gateVisits, gateOthers>>

\* The page is loaded again (reload, or the return from the hosted login
\* page): the component state starts over, localStorage is kept.
PageVisit ==
    /\ gateVisits < MaxVisits
    /\ gateVisits' = gateVisits + 1
    /\ gateLoading' = TRUE
    /\ gateAuth' = FALSE
    /\ \E storable \in BOOLEAN : GateEffect(TRUE, FALSE, smHasVisited, storable)
    /\ UNCHANGED <<gateRemoved, gateOthers>>

\* localStorage.removeItem('sm_has_visited'), as the doc comment suggests.
RemoveKey ==
    /\ gateRemoved < MaxRemovals
    /\ smHasVisited # Null
    /\ smHasVisited' = Null
    /\ gateRemoved' = gateRemoved + 1
    /\ UNCHANGED <<gateLoading, gateAuth, gateOps, gateVisits, gateOthers>>

GateNext == Auth0Loaded \/ GateAuthChange \/ GateRerun \/ PageVisit \/ RemoveKey

SpecGate == GateInit /\ [][GateNext]_vars

(***************************************************************************)
(* SimulationRadar's scale normalizer (SimulationRadar.jsx:12-22) next to  *)
(* MetricsChart's, on the same argument.                                   *)
(***************************************************************************)
\* Number(v) for any v: null and the empty string convert to 0, undefined
\* to NaN.
NumberOf(v) ==
    CASE v.t \in {"null", "empty"} -> Int2Num(0)
      [] v.t = "undefined" -> NaN
      [] OTHER -> Number(v)

clamp15(v) ==
    LET n == NumberOf(v) IN
    IF ~IsFinite(n) THEN Null
    ELSE Num(Max(1 * Den, Min(5 * Den, MathRound(n).n)))

\* lastNonNull(points): the last point whose v is neither null nor undefined.
RECURSIVE lastNonNull(_)
lastNonNull(points) ==
    IF points = <<>> THEN Null
    ELSE LET p == points[Len(points)] IN
         IF p.v.t \notin {"null", "undefined"} THEN clamp15(p.v)
         ELSE lastNonNull(SubSeq(points, 1, Len(points) - 1))

\* loadMetric's sim for an ok answer of /simulations/latest with this
\* forecast: clamp15 of the last item's value, null for an empty forecast.
SimOfForecast(forecast) ==
    IF Len(forecast) > 0 THEN clamp15(forecast[Len(forecast)].value) ELSE Null

ClampInit ==
    /\ cIn \in NormInputs
    /\ cOut = Unset
    /\ cNorm = Unset
    /\ cSim = Unset
    /\ ChartIdle /\ NormIdle /\ MergeIdle /\ DayIdle /\ FmtIdle
    /\ PermIdle /\ FetchIdle /\ GateIdle /\ DetIdle /\ SimIdle

clampOthers == <<chartSide, permVars, fetchVars, gateVars, detVars, simVars>>

ClampApply ==
    /\ cOut = Unset
    /\ cOut' = clamp15(cIn)
    /\ cNorm' = normalizeDiscrete(cIn)
    /\ cSim' = SimOfForecast(<<[minute |-> 0, value |-> Int2Num(3)],
                               [minute |-> 1, value |-> cIn]>>)
    /\ UNCHANGED <<cIn, clampOthers>>

ClampNext == ClampApply

SpecClamp == ClampInit /\ [][ClampNext]_vars

(***************************************************************************)
(* The point detail of MetricsChart: handleChartClick and fetchDetail      *)
(* (MetricsChart.jsx:266-286).  Every click starts a request of its own;   *)
(* nothing ties a response to the click that is current when it arrives.   *)
(***************************************************************************)
MaxDetail == 2

\* The timestamps of the points that can be clicked.
DetailTs == {Ts("ms", 60), Ts("ms", 62), Ts("ms", 65)}

\* state?.activePayload?.[0]?.payload of a click: a merged record, a record
\* without time, or nothing (a click beside the points).
DetailPayloads ==
    {[has |-> TRUE, time |-> ts] : ts \in DetailTs}
        \cup {[has |-> TRUE, time |-> Null], [has |-> FALSE, time |-> Null]}

\* What a failed detail request leaves in e.message: json.error, nothing
\* (the fallback text applies), or the message of a rejection.
DetailFailures == {"sin datos", "", "Failed to fetch"}

DetailInit ==
    /\ ChartIdle /\ NormIdle /\ MergeIdle /\ DayIdle /\ FmtIdle
    /\ DetIdle
    /\ PermIdle /\ FetchIdle /\ GateIdle /\ SimIdle /\ ClampIdle

detailOthers ==
    <<adviceDate, adviceMsg, adviceLoading, advPc, advReqs, advTrace, advPoints,
      chartVars, normVars, mergeVars, fmtVars,
      permVars, fetchVars, gateVars, simVars, clampVars>>

\* onClick of the chart: lines 280-286, with fetchDetail up to its await.
handleChartClick(p) ==
    /\ Len(detReqs) < MaxDetail
    /\ IF ~p.has \/ p.time = Null
       THEN UNCHANGED <<selectedTs, detailOpen, detailLoading, detailErr, detail, detReqs>>
       ELSE /\ selectedTs' = p.time
            /\ detailOpen' = TRUE
            /\ detailLoading' = TRUE
            /\ detailErr' = ""
            /\ detail' = Null
            /\ detReqs' = Append(detReqs, [ts |-> p.time])
    /\ UNCHANGED <<detShown, detailOthers>>

\* Request i is answered with the detail of its timestamp: setDetail(json),
\* finally setDetailLoading(false).
DetailOk(i) ==
    /\ detail' = [ts |-> detReqs[i].ts]
    /\ detailLoading' = FALSE
    /\ detShown' = detReqs[i].ts
    /\ detReqs' = RemoveAt(detReqs, i)
    /\ UNCHANGED <<selectedTs, detailOpen, detailErr, detailOthers>>

\* Request i fails: setDetailErr(String(e?.message || e)), finally
\* setDetailLoading(false).
DetailFailed(i, e) ==
    /\ detailErr' = IF e # "" THEN e ELSE "No hay detalle para ese punto"
    /\ detailLoading' = FALSE
    /\ detShown' = detReqs[i].ts
    /\ detReqs' = RemoveAt(detReqs, i)
    /\ UNCHANGED <<selectedTs, detailOpen, detail, detailOthers>>

DetailNext ==
    \/ \E p \in DetailPayloads : handleChartClick(p)
    \/ \E i \in 1..Len(detReqs) : DetailOk(i)
    \/ \E i \in 1..Len(detReqs) : \E e \in DetailFailures : DetailFailed(i, e)

SpecDetail == DetailInit /\ [][DetailNext]_vars

(***************************************************************************)
(* The Simulacion page (App.jsx:154-187): SimulationRadar and              *)
(* SimulateInterventions over the server's latest forecasts.  A loadAll    *)
(* reads each metric's forecast at a moment of its own and commits when    *)
(* all of them have been read.                                             *)
(***************************************************************************)
MaxLoads == 2
MaxReload == 2
MaxGen == 1

\* simTabs.map(m => m.value)
SimMetrics == <<"sleep", "stress">>

SimMetricSet == {SimMetrics[i] : i \in 1..Len(SimMetrics)}

\* The forecast a generation stores, and no forecast.
SimForecast == <<[minute |-> 0, value |-> Int2Num(4)]>>
NoStoredForecast == <<>>

\* json.points of /metrics/series for the last year, per metric.
SimSeries ==
    [m \in SimMetricSet |->
        IF m = "sleep"
        THEN <<[t |-> Ts("ms", 60), v |-> Int2Num(3)], [t |-> Ts("ms", 65), v |-> Null]>>
        ELSE <<[t |-> Ts("ms", 60), v |-> Int2Num(2)]>>]

\* The props App.jsx gives <SimulateInterventions> (lines 181-185).
SimulateProps == {"metric", "title", "onDone"}

\* The prop the component reads its callback from: { metric, onSimulated }.
onSimulatedGiven == "onSimulated" \in SimulateProps

\* A loadAll that has read nothing yet.
NewLoad == [sims |-> [m \in SimMetricSet |-> Unset]]

\* loadAll up to its await: setLoading(true); setErr("").
StartLoad(loads) ==
    /\ radLoading' = TRUE
    /\ radErr' = ""
    /\ radLoads' = Append(loads, NewLoad)

\* Every row's sim cleared, whatever its key.
ResetAllRows(prev, m) == [i \in 1..Len(prev) |-> [prev[i] EXCEPT !.sim = Null]]

\* prev.map(r => r.key === chosenMetric ? { ...r, sim: null } : r)
ResetRows(prev, m) ==
    [i \in 1..Len(prev) |-> IF prev[i].key = m THEN [prev[i] EXCEPT !.sim = Null] ELSE prev[i]]

\* The page after its mount: the radar's effect has called loadAll.
SimInit ==
    /\ activeMetric = "sleep"
    /\ reload = 0
    /\ srvForecast \in [SimMetricSet -> {NoStoredForecast, SimForecast}]
    /\ rows = <<>>
    /\ radLoading = TRUE
    /\ resetting = FALSE
    /\ radErr = ""
    /\ radLoads = <<NewLoad>>
    /\ resetReq = Null
    /\ resetAcked = {}
    /\ GenIdle
    /\ ChartIdle /\ NormIdle /\ MergeIdle /\ DayIdle /\ FmtIdle
    /\ PermIdle /\ FetchIdle /\ GateIdle /\ DetIdle /\ ClampIdle

simOthers == <<chartSide, permVars, fetchVars, gateVars, detVars, clampVars>>

\* handleTab
SetTab(m) ==
    /\ m # activeMetric
    /\ activeMetric' = m
    /\ UNCHANGED <<reload, srvForecast, radarVars, genVars, simOthers>>

\* The button "Actualizar", disabled while loading.
Actualizar ==
    /\ ~radLoading
    /\ Len(radLoads) < MaxLoads
    /\ StartLoad(radLoads)
    /\ UNCHANGED <<activeMetric, reload, srvForecast, rows, resetting, resetReq,
                   resetAcked, genVars, simOthers>>

\* loadMetric(m) of load i gets its answer of /simulations/latest.
LoadRead(i, m) ==
    /\ radLoads[i].sims[m] = Unset
    /\ radLoads' = [radLoads EXCEPT ![i].sims[m] = SimOfForecast(srvForecast[m])]
    /\ UNCHANGED <<activeMetric, reload, srvForecast, rows, radLoading, resetting,
                   radErr, resetReq, resetAcked, genVars, simOthers>>

\* Promise.all resolves: setRows(results); finally setLoading(false).
LoadCommit(i) ==
    /\ \A m \in SimMetricSet : radLoads[i].sims[m] # Unset
    /\ rows' = [k \in 1..Len(SimMetrics) |->
                   [key |-> SimMetrics[k],
                    actual |-> lastNonNull(SimSeries[SimMetrics[k]]),
                    sim |-> radLoads[i].sims[SimMetrics[k]]]]
    /\ radLoading' = FALSE
    /\ radLoads' = RemoveAt(radLoads, i)
    /\ UNCHANGED <<activeMetric, reload, srvForecast, resetting, radErr, resetReq,
                   resetAcked, genVars, simOthers>>

\* A request of load i rejects: setErr(message); finally setLoading(false).
LoadFail(i) ==
    /\ radErr' = "Failed to fetch"
    /\ radLoading' = FALSE
    /\ radLoads' = RemoveAt(radLoads, i)
    /\ UNCHANGED <<activeMetric, reload, srvForecast, rows, resetting, resetReq,
                   resetAcked, genVars, simOthers>>

\* handleReset up to its await (lines 87-91); chosenMetric is activeMetric.
handleReset ==
    /\ IF resetting
       THEN UNCHANGED <<resetting, radErr, resetReq>>
       ELSE /\ resetting' = TRUE
            /\ radErr' = ""
            /\ resetReq' = [metric |-> activeMetric, deleted |-> FALSE]
    /\ UNCHANGED <<activeMetric, reload, srvForecast, rows, radLoading, radLoads,
                   resetAcked, genVars, simOthers>>

\* The server carries out the DELETE.
ServerDelete ==
    /\ resetReq # Null
    /\ ~resetReq.deleted
    /\ srvForecast' = [srvForecast EXCEPT ![resetReq.metric] = NoStoredForecast]
    /\ resetReq' = [resetReq EXCEPT !.deleted = TRUE]
    /\ UNCHANGED <<activeMetric, reload, rows, radLoading, resetting, radErr, radLoads,
                   resetAcked, genVars, simOthers>>

\* The acknowledgment arrives (lines 96-97, 101): the row is cleared,
\* onReset increments the page's reload token, and the radar's effect calls
\* loadAll for the new token.
ResetAck ==
    /\ resetReq # Null
    /\ resetReq.deleted
    /\ reload < MaxReload
    /\ Len(radLoads) < MaxLoads
    /\ rows' = ResetRows(rows, resetReq.metric)
    /\ reload' = reload + 1
    /\ resetting' = FALSE
    /\ resetReq' = Null
    /\ resetAcked' = resetAcked \cup {resetReq.metric}
    /\ StartLoad(radLoads)
    /\ UNCHANGED <<activeMetric, srvForecast, genVars, simOthers>>

\* The server refuses (lines 93-95, 98-101).
ResetRefused(e) ==
    /\ resetReq # Null
    /\ ~resetReq.deleted
    /\ radErr' = IF e # "" THEN e ELSE "No se pudo reiniciar"
    /\ resetting' = FALSE
    /\ resetReq' = Null
    /\ UNCHANGED <<activeMetric, reload, srvForecast, rows, radLoading, radLoads,
                   resetAcked, genVars, simOthers>>

\* The request rejects or its body is not JSON, before or after the server
\* has carried it out.
ResetThrown ==
    /\ resetReq # Null
    /\ radErr' = "Failed to fetch"
    /\ resetting' = FALSE
    /\ resetReq' = Null
    /\ UNCHANGED <<activeMetric, reload, srvForecast, rows, radLoading, radLoads,
                   resetAcked, genVars, simOthers>>

\* SimulateInterventions.run up to its await (lines 16-24).
run ==
    /\ IF simLoading
       THEN UNCHANGED genVars
       ELSE /\ simRuns < MaxGen
            /\ simLoading' = TRUE
            /\ simMsg' = Null
            /\ simReq' = [metric |-> activeMetric, created |-> FALSE]
            /\ simRuns' = simRuns + 1
    /\ UNCHANGED <<activeMetric, reload, srvForecast, radarVars, simOthers>>

\* The server generates and stores the forecast.
ServerGenerate ==
    /\ simReq # Null
    /\ ~simReq.created
    /\ srvForecast' = [srvForecast EXCEPT ![simReq.metric] = SimForecast]
    /\ simReq' = [simReq EXCEPT !.created = TRUE]
    /\ resetAcked' = resetAcked \ {simReq.metric}
    /\ UNCHANGED <<activeMetric, reload, rows, radLoading, resetting, radErr, radLoads,
                   resetReq, simLoading, simMsg, simRuns, simOthers>>

\* The generation is answered ok (lines 31-33, 37): onSimulated?.() calls
\* the page's callback when the component was given one.
GenOk ==
    /\ simReq # Null
    /\ simReq.created
    /\ simMsg' = [type |-> "success", text |-> simReq.metric]
    /\ simLoading' = FALSE
    /\ simReq' = Null
    /\ IF onSimulatedGiven
       THEN /\ reload < MaxReload
            /\ Len(radLoads) < MaxLoads
            /\ reload' = reload + 1
            /\ StartLoad(radLoads)
       ELSE UNCHANGED <<reload, radLoading, radErr, radLoads>>
    /\ UNCHANGED <<activeMetric, srvForecast, rows, resetting, resetReq, resetAcked,
                   simRuns, simOthers>>

\* The generation fails (lines 27-29, 34-37).
GenFail(e) ==
    /\ simReq # Null
    /\ ~simReq.created
    /\ simMsg' = [type |-> "error",
                  text |-> IF e # "" THEN e ELSE "Error simulando intervenciones"]
    /\ simLoading' = FALSE
    /\ simReq' = Null
    /\ UNCHANGED <<activeMetric, reload, srvForecast, radarVars, simRuns, simOthers>>

SimFailures == {"", "sin datos"}

SimNext ==
    \/ \E m \in SimMetricSet : SetTab(m)
    \/ Actualizar
    \/ \E i \in 1..Len(radLoads) : \E m \in SimMetricSet : LoadRead(i, m)
    \/ \E i \in 1..Len(radLoads) : LoadCommit(i)
    \/ \E i \in 1..Len(radLoads) : LoadFail(i)
    \/ handleReset
    \/ ServerDelete
    \/ ResetAck
    \/ \E e \in SimFailures : ResetRefused(e)
    \/ ResetThrown
    \/ run
    \/ ServerGenerate
    \/ GenOk
    \/ \E e \in SimFailures : GenFail(e)

SpecSim == SimInit /\ [][SimNext]_vars

\* The radar on its own: no generation is requested.
RadarNext ==
    \/ \E m \in SimMetricSet : SetTab(m)
    \/ Actualizar
    \/ \E i \in 1..Len(radLoads) : \E m \in SimMetricSet : LoadRead(i, m)
    \/ \E i \in 1..Len(radLoads) : LoadCommit(i)
    \/ \E i \in 1..Len(radLoads) : LoadFail(i)
    \/ handleReset
    \/ ServerDelete
    \/ ResetAck
    \/ \E e \in SimFailures : ResetRefused(e)
    \/ ResetThrown

SpecRadar == SimInit /\ [][RadarNext]_vars

(***************************************************************************)
(* Properties.                                                             *)
(***************************************************************************)
MaxOf(S) == CHOOSE x \in S : \A y \in S : y <= x

RealTimes == {data[i].tISO : i \in 1..Len(data)}

InWindowReal == {i \in 1..Len(data) : InRange(data[i].tISO, currentRange)}

\* C1: a response to a series request that was superseded by a later request
\* for another window is never committed to `data`.  (The forecast slot is
\* requested once per mounted chart, so only the series slot can be
\* superseded.)
C1_NoStaleCommit == ~dataStale

\* C1 at rest: with no request outstanding, `data` is not the answer to a
\* superseded request.
C1_AtRest == seriesReqs = <<>> => ~dataStale

\* C2: every merged record carries the timestamp of a real point, a record's
\* sim is non-null only if the overlay has a point with the same timestamp,
\* and overlay points whose timestamp no real point has change nothing.
C2_OverlayNeverAddsOrMoves ==
    LET Present(p) == p.time \in RealTimes
        present == SelectSeq(overlay, Present)
    IN  /\ \A k \in 1..Len(merged) : merged[k].time \in RealTimes
        /\ \A k \in 1..Len(merged) :
              merged[k].sim # Null =>
                  \E j \in 1..Len(overlay) : overlay[j].time = merged[k].time
        /\ MergedOf(data, FilteredOverlayOf(present, data, currentRange)) = merged

\* C2 witness: real points in the window, and a non-null overlay point inside
\* the window at a timestamp no real point has; no record gets a sim value.
C2_Witness ==
    /\ mDone
    /\ Len(merged) = 2
    /\ \A k \in 1..Len(merged) :
          InRange(merged[k].time, currentRange) /\ merged[k].sim = Null
    /\ Len(overlay) >= 1
    /\ overlay[1].time \notin RealTimes
    /\ overlay[1].value # Null
    /\ InRange(overlay[1].time, currentRange)

\* C3: the merged output has as many records as there are real points whose
\* parsed timestamp lies inside the active window.
C3_LengthIsInWindowCount == Len(merged) = Cardinality(InWindowReal)

\* C3 at rest: the same once every request has been answered, none of the
\* answers being a superseded one.
C3_AtRest ==
    (seriesReqs = <<>> /\ ~dataStale) => Len(merged) = Cardinality(InWindowReal)

C5_SeriesInsideWindow == \A i \in 1..Len(data) : InRange(data[i].tISO, currentRange)

\* C5 at rest: the same for a chart that does not poll, once every request
\* has been answered, none of the answers being a superseded one.
C5_AtRest ==
    (pollMs = 0 /\ seriesReqs = <<>> /\ ~dataStale) =>
        \A i \in 1..Len(data) : InRange(data[i].tISO, currentRange)

\* C6: consecutive merged records are strictly increasing by timestamp, both
\* as strings and as instants.
C6_SortedStringsAndInstants ==
    mDone =>
        \A k \in 1..(Len(merged) - 1) :
            /\ localeCompare(merged[k].time, merged[k + 1].time) < 0
            /\ DateParse(merged[k].time).ms < DateParse(merged[k + 1].time).ms

\* C6, the string half alone.
C6_SortedStrings ==
    mDone =>
        \A k \in 1..(Len(merged) - 1) :
            localeCompare(merged[k].time, merged[k + 1].time) < 0

\* C7: a timestamp that several real points share has exactly one merged
\* record, whose real value is the normalized value of the last of them.
C7_LastWriteWins ==
    mDone =>
        \A i \in 1..Len(mReal) :
            LET same == {j \in 1..Len(mReal) : mReal[j].t = mReal[i].t}
                recs == {k \in 1..Len(merged) : merged[k].time = mReal[i].t}
            IN  Cardinality(same) > 1 =>
                    /\ Cardinality(recs) = 1
                    /\ \A k \in recs :
                          merged[k].real = normalizeDiscrete(mReal[MaxOf(same)].v)

\* C7 witness: two real points on one timestamp whose values normalize
\* differently, merged into one record.
C7_Witness ==
    /\ mDone
    /\ Len(mReal) = 2
    /\ mReal[1].t = mReal[2].t
    /\ normalizeDiscrete(mReal[1].v) # normalizeDiscrete(mReal[2].v)
    /\ Len(merged) = 1
    /\ merged[1].real = normalizeDiscrete(mReal[2].v)

\* C8: hasOverlay holds exactly when some overlay point has the timestamp of
\* a real point inside the window, in every state the chart reaches (window
\* changes included), and the simulated line is drawn only when it holds.
C8_HasOverlayIffFiltered ==
    /\ hasOverlay <=>
          \E j \in 1..Len(overlay) : \E i \in InWindowReal :
              overlay[j].time = data[i].tISO
    /\ simLineRendered => hasOverlay

\* C8 witness: the overlay is loaded and its point sits on a real point, yet
\* the window leaves that point out, so hasOverlay is false.
C8_Witness ==
    /\ Len(overlay) > 0
    /\ Len(data) > 0
    /\ overlay[1].time = data[1].tISO
    /\ ~hasOverlay
    /\ mode = "absolute"

\* C8 witness of the other side: the simulated line is drawn.
C8_Shown == hasOverlay /\ simLineRendered /\ mode = "absolute"

Clamp15(k) == IF k < 1 THEN 1 ELSE IF k > 5 THEN 5 ELSE k

NoDataInput(v) == v.t \in {"null", "undefined", "empty", "nan", "inf", "str"}

\* C9: normalizeDiscrete gives null for null, empty or non-finite input, and
\* otherwise a nearest integer of the input clamped to [1,5]; the result is
\* one of 1..5 or null; normalize(-10) = 1 and normalize(99) = 5.
C9_NormalizeIsReference ==
    nOut # Unset =>
        /\ nOut \in {Null} \cup {Int2Num(k) : k \in 1..5}
        /\ NoDataInput(nIn) => nOut = Null
        /\ ~NoDataInput(nIn) =>
              \E k \in (-MaxAbs - 1)..(MaxAbs + 1) :
                  /\ 2 * (nIn.n - k * Den) <= Den
                  /\ 2 * (k * Den - nIn.n) <= Den
                  /\ nOut = Int2Num(Clamp15(k))
        /\ nIn = Num(-10 * Den) => nOut = Int2Num(1)
        /\ nIn = Num(99 * Den) => nOut = Int2Num(5)

\* C9 witness: 99 has been normalized to 5.
C9_Witness == nIn = Num(99 * Den) /\ nOut = Int2Num(5)

\* C10: normalizing a normalized value changes nothing.
C10_Idempotent == nOut2 # Unset => nOut2 = nOut

\* C10 witness: a fractional number above the scale, normalized twice.
C10_Witness ==
    /\ nOut2 # Unset
    /\ nIn.t = "num"
    /\ nIn.n > 5 * Den
    /\ nIn.n % Den # 0

\* C11: an overlay point is kept by filteredOverlay exactly when its
\* timestamp denotes the instant of a real sample inside the window,
\* whichever encoding the forecast came in.
C11_MatchIffSameInstant ==
    mDone =>
        \A j \in 1..Len(overlay) :
            (\E k \in 1..Len(filteredOverlay) : filteredOverlay[k] = overlay[j])
                <=> \E i \in InWindowReal :
                        /\ DateParse(overlay[j].time).finite
                        /\ DateParse(overlay[j].time).ms = DateParse(data[i].tISO).ms

\* C12: a "no forecast" answer leaves the overlay empty and is no error: err
\* and data are as they were, and merged is produced with every sim null.
C12_NoForecastIsNoError ==
    [][(\E i \in 1..Len(overlayReqs) : OverlayNoneOf(i)) =>
          /\ overlay' = <<>>
          /\ err' = err
          /\ data' = data
          /\ Len(merged') = Len(merged)
          /\ \A k \in 1..Len(merged') : merged'[k].sim = Null]_vars

\* C12 witness: the forecast request was answered "no forecast" on a chart
\* that shows a series and an error of an earlier series load.
C12_Witness ==
    /\ overlayResult = "none"
    /\ overlay = <<>>
    /\ data # <<>>
    /\ err = "sin datos"

\* C13: a failed load, of the series or of the forecast, leaves the chart
\* with a non-empty err.
C13_FailureLeavesError ==
    [][(LoadsSeriesFail \/ LoadsOverlayFail) => err' # ""]_vars

\* C14: a failed series load leaves data and merged as they were, and err is
\* the error string of the response when it carries one.
C14_FailureKeepsSeries ==
    [][\A i \in 1..Len(seriesReqs) : \A f \in SeriesFailures :
          SeriesFailWith(i, f) =>
              /\ data' = data
              /\ merged' = merged
              /\ (~f.thrown /\ f.error # "") => err' = f.error]_vars

\* C14 witness: the last series response handled was a failure carrying an
\* error string, on a chart that shows a series.
C14_Witness ==
    /\ seriesResult = "failed"
    /\ err = "sin datos"
    /\ data # <<>>
    /\ Len(merged) > 0

\* C15: no series request for an absolute window with from >= to is issued.
C15_NoLoadForInvalidWindow ==
    \A i \in 1..Len(seriesReqs) :
        seriesReqs[i].key.mode = "absolute" =>
            seriesReqs[i].key.from < seriesReqs[i].key.to

\* C16: the overlay holds, for a minutes_ahead forecast, the instant of the
\* load plus each point's minutes, one instant for all points, and for an
\* absolute_ts forecast each point's own timestamp; this stays so through
\* window changes, series loads and the passing of time.
C16_ConvertedOnceAtLoad ==
    overlayResult = "points" =>
        /\ Len(overlay) = Len(overlayJson.forecast)
        /\ \A j \in 1..Len(overlay) :
              overlay[j].time =
                  IF overlayJson.forecast_mode = "absolute_ts"
                  THEN overlayJson.forecast[j].ts
                  ELSE Ts("ms", overlayNow + overlayJson.forecast[j].minute)

\* C16 witness: a two-point minutes_ahead forecast was loaded, and since then
\* time has passed, the window was changed and a series was loaded.
C16_Witness ==
    /\ overlayResult = "points"
    /\ overlayJson.forecast_mode = "minutes_ahead"
    /\ Len(overlay) = 2
    /\ clock > overlayNow
    /\ mode = "absolute"
    /\ seriesResult = "ok"

\* C20: a chart has at most one polling timer, exactly one while it is
\* mounted with pollMs > 0, and none once it is unmounted, after which no
\* series request is issued.
C20_OnePollingTimer ==
    /\ timers <= 1
    /\ (mounted /\ pollMs > 0) => timers = 1
    /\ ~mounted => (timers = 0 /\ seriesReqs = <<>>)

\* C20 witness: a polling chart whose window was changed, then unmounted.
C20_Witness ==
    /\ ~mounted
    /\ pollMs > 0
    /\ mode = "absolute"
    /\ pollRef = "cleared"

\* C17: the nearest-to-noon fallback selects, from the day's points in source
\* order, a point at minimal distance to local noon, and among the points at
\* that distance the first.
C17_NearestFirstWins ==
    (Len(advTrace) >= 2 /\ advTrace[2] = "nearest") =>
        LET P == WithT(advPoints)
            Dist(j) == Abs(GetTime(P[j].t) - DayNoon)
        IN  \E k \in 1..Len(P) :
                /\ selectedTs = P[k].t
                /\ \A j \in 1..Len(P) : Dist(k) <= Dist(j)
                /\ \A j \in 1..(k - 1) : Dist(j) > Dist(k)

\* C17 witness: 20:00, then 16:00 and 08:00, both four hours from noon; 16:00,
\* the first of the two, is selected.
C17_Witness ==
    /\ Len(advPoints) = 3
    /\ advPoints[1].t = Ts("ms", 20 * 60)
    /\ advPoints[2].t = Ts("ms", 16 * 60)
    /\ advPoints[3].t = Ts("ms", 8 * 60)
    /\ selectedTs = Ts("ms", 16 * 60)
    /\ advPc = "done"

\* C18: the by-date query comes first; after a hit nothing else is requested;
\* the day's series, 00:00:00 to 23:59:59, is requested only after a by-date
\* miss; a day without points ends in the warning with no point-detail
\* request and no detail opened; and when the lookup has ended adviceLoading
\* is false.
C18_LookupOrder ==
    LET kinds == [i \in 1..Len(advReqs) |-> advReqs[i].kind]
        Seen(e) == \E i \in 1..Len(advTrace) : advTrace[i] = e
    IN  /\ kinds \in {<<>>, <<"by_date">>, <<"by_date", "series">>,
                      <<"by_date", "series", "detail">>}
        /\ Seen("hit") => kinds = <<"by_date">>
        /\ Len(kinds) >= 2 =>
              /\ advTrace[1] = "miss"
              /\ advReqs[2].from = 0
              /\ advReqs[2].to = DayEnd
        /\ Seen("empty") =>
              /\ kinds = <<"by_date", "series">>
              /\ ~detailOpen
              /\ adviceMsg = [type |-> "warning", text |-> "No hay medicion para esa fecha."]
        /\ advPc = "done" => ~adviceLoading

\* C18 witness: a by-date miss followed by a day whose only points carry no
\* timestamp; the lookup has ended.
C18_Witness ==
    /\ advTrace = <<"miss", "empty">>
    /\ Len(advPoints) > 0
    /\ advPc = "done"
    /\ ~adviceLoading

\* What the key says: its unit suffix, and the name before it.
UnitOf(k) == IF Last(k) \in {"mm", "m", "km"} THEN Last(k) ELSE "none"

NameOf(k) == IF UnitOf(k) = "none" THEN Last(k) ELSE Prev(k)

NamesLength(k) == NameOf(k) \in {"distance", "dist", "altitude", "elevation"}

\* out shows value / div to `digits` decimals, rounded to nearest, in `unit`.
Shows(out, value, div, digits, unit) ==
    /\ out.kind = "num"
    /\ out.unit = unit
    /\ out.digits = digits
    /\ 2 * Abs(out.shown * Den * div - value.n * Pow10(digits)) <= Den * div

ByUnitOrMagnitude(k, value, out) ==
    CASE UnitOf(k) = "mm" -> Shows(out, value, 1000, 2, "m")
      [] UnitOf(k) = "m" -> Shows(out, value, 1, 2, "m")
      [] UnitOf(k) = "km" -> Shows(out, value, 1, 3, "km")
      [] OTHER ->
            IF value.n > 10000 * Den THEN Shows(out, value, 1000, 2, "m")
            ELSE IF value.n > 100 * Den THEN Shows(out, value, 1, 2, "m")
            ELSE Shows(out, value, 1, 3, "km")

\* C19: for an activity feature whose key names a length or an altitude, a
\* key without unit suffix is converted by magnitude (> 10000 millimetres
\* shown in m, > 100 metres, otherwise kilometres, 100 included), and a key
\* with a _mm, _m or _km suffix by its suffix.
C19_UnitBySuffixOrMagnitude ==
    (fOut # Unset /\ metric = "activity" /\ fValue.t = "num" /\ NamesLength(fKey)) =>
        ByUnitOrMagnitude(fKey, fValue, fOut)

\* C19 for the keys in which only the unit suffix contains "mm".
C19_KeysWithoutOtherMm ==
    (/\ fOut # Unset /\ metric = "activity" /\ fValue.t = "num" /\ NamesLength(fKey)
     /\ \A i \in 1..Len(fKey) : fKey[i] \in MmParts => (i = Len(fKey) /\ UnitOf(fKey) = "mm")) =>
        ByUnitOrMagnitude(fKey, fValue, fOut)

\* C26: whenever hasOverlay is true, so that the simulated line and its
\* tooltip entry are shown, at least one merged record carries a simulated
\* value that is not null -- also for a forecast whose matching points have
\* null values.
C26_OverlayShownHasValue ==
    hasOverlay => \E i \in 1..Len(merged) : merged[i].sim # Null

\* C27: loading = false implies that no series request started by a change of
\* the window is still awaiting its response.  (Without polling every series
\* request is started by the mount or by a change of the window.)
C27_LoadingTracksRequests ==
    (mounted /\ loading = FALSE) => seriesReqs = <<>>

\* C21: in usePermissions the answer of an effect run that has been
\* superseded (isAuthenticated changed or the component unmounted, so that
\* its cleanup set ignore) commits neither perms nor loading; perms is []
\* whenever the user is not authenticated; and loading becomes false in the
\* end while the hook is mounted.
C21_IgnoredAnswerDropped ==
    [][\A i \in 1..Len(permRuns) :
          (/\ permRuns[i].ignore
           /\ \/ \E a \in PermAnswers : PermAnswer(i, a)
              \/ \E parsed \in BOOLEAN : PermBody(i, parsed))
              => UNCHANGED <<perms, permLoading>>]_vars

C21_NoPermsUnlessAuthenticated == [](~isAuthenticated => perms = <<>>)

C21_LoadingEnds == []<>(permLoading = FALSE \/ ~permMounted)

C22_RetryOnceOn401 ==
    /\ Len(afSent) <= 2
    /\ Len(afSent) = 2 =>
          /\ afSent[1].status = 401
          /\ afCall.retry
          /\ afSent[2].cacheMode = "off"
          /\ afSent[2].authorization[2] > afSent[1].authorization[2]
          /\ afSent[2].url = afSent[1].url
    /\ afPc = "returned" =>
          /\ afRes = Num(afSent[Len(afSent)].status)
          /\ (afSent[1].status # 401 \/ ~afCall.retry) => Len(afSent) = 1
          /\ (afSent[1].status = 401 /\ afCall.retry) => Len(afSent) = 2

\* The retry answered by a second 401, which is what the call returned.
C22_Witness ==
    /\ afPc = "returned"
    /\ Len(afSent) = 2
    /\ afSent[2].status = 401
    /\ afRes = Num(401)

\* The positions of gateOps at which loginWithRedirect was called.
GateLogins == {i \in 1..Len(gateOps) : gateOps[i].op = "loginWithRedirect"}

\* C23: as long as the key sm_has_visited has not been removed,
\* loginWithRedirect has been called at most once over all effect runs and
\* page visits; every call comes right after the key was written; and no call
\* was made while Auth0 was loading or the user was authenticated.
C23_RedirectOnFirstVisitOnly ==
    /\ gateRemoved = 0 => Cardinality(GateLogins) <= 1
    /\ \A i \in GateLogins :
          /\ i > 1
          /\ gateOps[i - 1].op = "setItem"
          /\ ~gateOps[i].isLoading
          /\ ~gateOps[i].isAuthenticated
    /\ GateLogins # {} /\ gateRemoved = 0 => smHasVisited # Null

\* The redirect was started once, and the page has been visited again since
\* with Auth0 loaded and nobody signed in.
C23_Witness ==
    /\ Cardinality(GateLogins) = 1
    /\ gateRemoved = 0
    /\ gateVisits > 1
    /\ ~gateLoading
    /\ ~gateAuth

\* C25: for every argument clamp15 returns what normalizeDiscrete returns, so
\* that a forecast whose last point has a null value gives the radar
\* sim = null.
C25_NormalizersAgree ==
    cOut # Unset =>
        /\ cOut = cNorm
        /\ cIn = Null => cSim = Null

\* C28: once no detail request is in flight, the detail (or detailErr) on
\* display is the answer to the request for the selected timestamp, never the
\* answer to an earlier click, and exactly one of detail and detailErr is set.
C28_DetailAnswersSelection ==
    (detReqs = <<>> /\ selectedTs # Null) =>
        /\ detShown = selectedTs
        /\ (detail # Null) # (detailErr # "")

\* C24: an acknowledged reset for metric M sets the sim of row M to null and
\* leaves the actual of row M and both values of every other row as they
\* were; a refused or failed reset leaves all rows as they were and sets err;
\* a reset requested while another is in progress does nothing; and
\* resetting is false after every outcome.
C24_ResetClearsOneRow ==
    [][/\ ResetAck =>
            /\ Len(rows') = Len(rows)
            /\ \A i \in 1..Len(rows) :
                  /\ rows'[i].key = rows[i].key
                  /\ rows'[i].actual = rows[i].actual
                  /\ rows'[i].sim =
                        IF rows[i].key = resetReq.metric THEN Null ELSE rows[i].sim
            /\ resetting' = FALSE
       /\ ((\E e \in SimFailures : ResetRefused(e)) \/ ResetThrown) =>
            /\ rows' = rows
            /\ radErr' # ""
            /\ resetting' = FALSE
       /\ (resetting /\ handleReset) => UNCHANGED vars]_vars

\* A reset of one metric has been acknowledged: its row has lost its
\* simulated value while another row has kept its own.
C24_Witness ==
    /\ ~resetting
    /\ \E i, j \in 1..Len(rows) :
          /\ rows[i].key \in resetAcked
          /\ rows[i].sim = Null
          /\ rows[i].actual # Null
          /\ rows[j].key \notin resetAcked
          /\ rows[j].sim # Null

\* C29: once a reset for metric M has been acknowledged and every loadAll in
\* flight has resolved, the row of M shows sim = null for as long as no new
\* forecast has been generated for M.
C29_ResetSurvivesLoads ==
    radLoads = <<>> =>
        \A i \in 1..Len(rows) : rows[i].key \in resetAcked => rows[i].sim = Null

\* C30: every successful generation increments the page's reload token and
\* so starts a reload of the radar, a failed one does not; a run requested
\* while one is in flight does nothing; loading is false after every outcome.
C30_GenerationReloadsRadar ==
    [][/\ GenOk =>
            /\ reload' = reload + 1
            /\ Len(radLoads') = Len(radLoads) + 1
            /\ simLoading' = FALSE
       /\ (\E e \in SimFailures : GenFail(e)) =>
            /\ reload' = reload
            /\ radLoads' = radLoads
            /\ simLoading' = FALSE
       /\ (simLoading /\ run) => UNCHANGED vars]_vars

====
